---- MODULE Spec2Model ----
(***************************************************************************)
(* SpeakSharp speech scoring backend: filler/pause scoring, proficiency    *)
(* combination, score aggregation, the analysis pipeline and the           *)
(* /api/v2/analyze endpoint.                                               *)
(*                                                                         *)
(* Fixed point conventions:                                                *)
(*   - scores on the 0-10 / 0-20 / 0-50 / 0-100 scales are kept in tenths  *)
(*     (a value v stands for v/10), the precision of round(x, 1);          *)
(*   - 'Filler Density' is kept in thousandths, the precision of           *)
(*     round(x, 3); density thresholds 0.05/0.10/0.15 are 50/100/150;      *)
(*   - weights are kept in thousandths (0.15 is 150).                      *)
(***************************************************************************)
EXTENDS Integers, Sequences, FiniteSets, TLC

VARIABLES
    \* ---- filler / proficiency scoring (analyzers/*.py) ----
    step,                \* position in the scoring steps of one request
    segments,            \* transcription result: word entries, per minute
    pause_marks,         \* mid-sentence pause markers of the text, per bucket
    filler_analysis,     \* result of FillerWordAnalyzer.analyze
    proficiency_analysis,\* result of ProficiencyCalculator.calculate
    prev,                \* scores returned for the previous request
    \* ---- aggregation (speech_service.py, main.py) ----
    aggStep,             \* position in the aggregation steps
    analyses,            \* the analyzers' results: native score or Missing
    overall_scores,      \* result of _calculate_overall_scores
    top_strengths,       \* result of _identify_strengths
    suggestions,         \* result of _generate_suggestions
    response,            \* the response built by build_response
    \* ---- POST /api/v2/analyze (main.py, speech_service.py) ----
    pc,                  \* position of the request handler
    request,             \* the request's inputs and the collaborators' fate
    text,                \* transcription_result['text'], as tokens
    results,             \* per analyzer: how its call ended
    tokenized,           \* per text-level analyzer: the text it processed
    http,                \* the HTTP response of the request
    saved,               \* save_analysis was called for the request
    \* ---- SpeechAnalyzerService.analyze_speech, lines 72-123 ----
    gpc,                 \* position in analyze_speech
    transcript_text,     \* the transcript handed to the analyzers
    tasks,               \* per launched analyzer: status and result
    gathered,            \* voice_results, content_results
    evaluation,          \* what evaluate and _aggregate_results consumed
    completion_order,    \* the launched analyzers in the order they returned
    last_call,           \* the previous call that returned a result
    \* ---- ProficiencyCalculator called with an expected duration ----
    durStep,             \* position of the call
    durArg,              \* the expected_duration argument
    adjusted,            \* result of _get_duration_adjusted_thresholds
    eval_input,          \* the filler analysis handed to calculate
    eval_scores,         \* result of calculate
    \* ---- VoiceModulationAnalyzer.analyze ----
    vpc,                 \* position in analyze
    voice_features,      \* what analyze measured on the recording
    voice_scores,        \* the scores computed so far
    \* ---- pause markers: the normalizers and the text re-analyzers ----
    tpc,                 \* position in the processing of one recording
    normalizer,          \* which implementation normalized the timing
    asr_result,          \* the ASR result: segments of timed words
    transcript,          \* the transcription with pauses, as characters
    clean_text,          \* the text after the pause markers are stripped
    pause_categories,    \* result of _analyze_mid_sentence_pauses
    \* ---- the endpoints of main.py with the audio and storage services ----
    apc,                 \* position of the endpoint handler
    api_request,         \* the request being handled
    posts,               \* POST /api/v2/analyze requests received so far
    upload_dir,          \* the audio files on disk
    background_tasks,    \* the files cleanup_file was scheduled for
    firestore,           \* the documents of the 'analyses' collection
    api_response,        \* the HTTP response of the request
    issued,              \* the (analysis_id, user_id) returned by POSTs
    \* ---- repeated analyses of one recording; TranscriptionEngine ----
    recording,           \* the recording and request analyze is run on
    runs,                \* the scores of the runs of analyze on it, in order
    spc,                 \* position in analyze_speech, lines 63-70
    transcription_result,\* what TranscriptionEngine.transcribe returned
    raised               \* the exception analyze_speech re-raised

scoreVars == <<step, segments, pause_marks, filler_analysis,
               proficiency_analysis, prev>>

aggVars == <<aggStep, analyses, overall_scores, top_strengths, suggestions,
             response>>

pipeVars == <<pc, request, text, results, tokenized, http, saved>>

gatherVars == <<gpc, transcript_text, tasks, gathered, evaluation,
                completion_order, last_call>>

durVars == <<durStep, durArg, adjusted, eval_input, eval_scores>>

voiceVars == <<vpc, voice_features, voice_scores>>

textVars == <<tpc, normalizer, asr_result, transcript, clean_text,
              pause_categories>>

apiVars == <<apc, api_request, posts, upload_dir, background_tasks,
             firestore, api_response, issued>>

runVars == <<recording, runs, spc, transcription_result, raised>>

vars == <<scoreVars, aggVars, pipeVars, gatherVars, durVars, voiceVars,
          textVars, apiVars, runVars>>


None == "none"

----------------------------------------------------------------------------
(* Bounds of the explored inputs *)

MaxMinutes == 2            \* minutes of speech in a short transcript
MaxFillersPerMinute == 9   \* filler words spoken in one minute
MaxOtherWords == 20        \* non-filler words of a short transcript
MaxPauseCount == 1         \* mid-sentence pauses per duration bucket

MaxLevel == 1              \* score levels per component: 0..MaxLevel

LongMinutes == 3           \* minutes of speech in a long transcript
FillerBurst == 3           \* long transcripts: fillers come in bursts
MaxBursts == 3             \* bursts per minute
WordBlock == 140           \* long transcripts: non-filler words per block
MaxBlocks == 3             \* blocks of non-filler words

MaxWords == 3              \* words of an uploaded recording

MaxSpokenFillers == 2      \* filler words of a transcript under gather
MaxPlainWords == 24        \* other words of a transcript under gather

MaxDurationLen == 5        \* characters of an expected-duration string

MaxShortPauses == 4        \* mid-sentence pauses under 1.5 s
MaxMediumPauses == 3       \* mid-sentence pauses of 1.5-3 s
MaxLongPauses == 2         \* mid-sentence pauses over 3 s
MaxVeryLongPauses == 1     \* mid-sentence pauses over 5 s

MaxFrames == 2             \* intensity frames of a recording
LongFrames == 8            \* frames of a longer recording
MaxPosts == 2              \* POST /api/v2/analyze requests of a run
MaxPhonemes == 2           \* challenging phonemes a transcript may match
MaxRuns == 2               \* runs of analyze on one recording

\* words of one recording transcribed through the OpenAI API
MaxTimedWords == 3

\* segments of one result of the local Whisper model, words of one segment
MaxSegments == 2

MaxSegmentWords == 2

----------------------------------------------------------------------------
(* Arithmetic helpers *)

Max(a, b) == IF a >= b THEN a ELSE b
Min(a, b) == IF a <= b THEN a ELSE b

\* round(n/d) to the nearest integer, ties to even (Python's round), d > 0
RoundDiv(n, d) ==
    LET q == n \div d
        r == n % d
    IN  IF 2 * r < d THEN q
        ELSE IF 2 * r > d THEN q + 1
        ELSE IF q % 2 = 0 THEN q ELSE q + 1

RECURSIVE SumSeq(_)
SumSeq(s) == IF s = <<>> THEN 0 ELSE Head(s) + SumSeq(Tail(s))

----------------------------------------------------------------------------
(* FillerWordAnalyzer *)

\* A transcription result carries, for every minute of the recording, the
\* number of word entries whose cleaned text is in FILLER_WORDS
\* (segments.fillers[m]) and the number of other word entries
\* (segments.others).
TotalWords(seg) == SumSeq(seg.fillers) + seg.others

\* filler_words_per_minute: only minutes with at least one filler get a key
FillerWordsPerMinute(seg) ==
    [m \in {i \in DOMAIN seg.fillers : seg.fillers[i] > 0} |-> seg.fillers[m]]

\* the per-minute penalty loop: score = max(0, score - 4 / 3 / 2)
RECURSIVE MinutePenalties(_, _, _)
MinutePenalties(score, perMinute, keys) ==
    IF keys = {} THEN score
    ELSE LET m == CHOOSE k \in keys : TRUE
             count == perMinute[m]
             next == IF count > 6 THEN Max(0, score - 40)
                     ELSE IF count > 4 THEN Max(0, score - 30)
                     ELSE IF count > 2 THEN Max(0, score - 20)
                     ELSE score
         IN  MinutePenalties(next, perMinute, keys \ {m})

\* density breakpoints with a top band that starts above 0.15
DensityScore_above_15(total_filler_words, total_words) ==
    IF total_words = 0 THEN 100
    ELSE IF 100 * total_filler_words > 15 * total_words THEN 0
    ELSE IF 100 * total_filler_words >= 10 * total_words THEN 20
    ELSE IF 100 * total_filler_words >= 5 * total_words THEN 40
    ELSE Max(0, RoundDiv(100 * total_words - 1000 * total_filler_words,
                         total_words))

\* density breakpoints on the unrounded density total_filler/total_words
DensityScore(total_filler_words, total_words) ==
    IF total_words = 0 THEN 100
    ELSE IF 100 * total_filler_words >= 15 * total_words THEN 0
    ELSE IF 100 * total_filler_words >= 10 * total_words THEN 20
    ELSE IF 100 * total_filler_words >= 5 * total_words THEN 40
    ELSE Max(0, RoundDiv(100 * total_words - 1000 * total_filler_words,
                         total_words))

_analyze_filler_words(seg) ==
    LET total_filler_words == SumSeq(seg.fillers)
        total_words == TotalWords(seg)
        perMinute == FillerWordsPerMinute(seg)
        density == IF total_words > 0
                   THEN RoundDiv(1000 * total_filler_words, total_words)
                   ELSE 0
        score == MinutePenalties(DensityScore(total_filler_words, total_words),
                                 perMinute, DOMAIN perMinute)
    IN  [TotalFillerWords |-> total_filler_words,
         FillerWordsPerMinute |-> perMinute,
         FillerDensity |-> density,
         Score |-> score]

\* the four bucket counts of the mid-sentence pause markers of the text
_analyze_mid_sentence_pauses(marks) ==
    [under_1_5 |-> marks.under_1_5,
     between_1_5_3 |-> marks.between_1_5_3,
     exceeding_3 |-> marks.exceeding_3,
     exceeding_5 |-> marks.exceeding_5]

FillerWordAnalyzer_analyze(seg, marks) ==
    [filler |-> _analyze_filler_words(seg),
     mid_sentence_pauses |-> _analyze_mid_sentence_pauses(marks)]

----------------------------------------------------------------------------
(* Expected-duration strings and ProficiencyCalculator's thresholds *)

\* the characters of an expected-duration string: digits, the hyphen, the
\* em dash (U+2014), a blank and a lower-case letter
Digits == {"1", "2", "5", "7"}

\* an expected_duration argument: None or a string of characters
NoneDuration == [none |-> TRUE, str |-> <<>>]

Str(chars) == [none |-> FALSE, str |-> chars]

\* "5-7 minutes", the default of analyze and of calculate
DefaultDuration == Str(<<"5", "-", "7", " ", "m">>)

Contains(s, c) == \E i \in 1..Len(s) : s[i] = c

\* str.split(sep): the pieces between the separators, empty ones included
RECURSIVE SplitOn(_, _)
SplitOn(s, sep) ==
    IF ~Contains(s, sep) THEN <<s>>
    ELSE LET i == CHOOSE k \in 1..Len(s) :
                      s[k] = sep /\ \A j \in 1..(k - 1) : s[j] # sep
         IN  <<SubSeq(s, 1, i - 1)>> \o SplitOn(SubSeq(s, i + 1, Len(s)), sep)

\* str.split(): the non-empty pieces between runs of blanks
SplitWhitespace(s) == SelectSeq(SplitOn(s, " "), LAMBDA piece : Len(piece) > 0)

\* float(token) succeeds on a non-empty run of digits
IsFloat(tok) == Len(tok) > 0 /\ \A i \in 1..Len(tok) : tok[i] \in Digits

\* the decimal digits, DecimalDigits[v + 1] being the digit of value v
DecimalDigits == <<"0", "1", "2", "3", "4", "5", "6", "7", "8", "9">>

RECURSIVE DecimalValue(_)
DecimalValue(tok) ==
    IF Len(tok) = 0 THEN 0
    ELSE LET c == tok[Len(tok)]
         IN  10 * DecimalValue(SubSeq(tok, 1, Len(tok) - 1))
               + (CHOOSE v \in 0..9 : DecimalDigits[v + 1] = c)

\* the thresholds for a 7-minute speech, returned by the except clause
DefaultThresholds ==
    [raised |-> "none",
     filler_thresholds |-> [minimal |-> 2, low |-> 5, moderate |-> 8],
     pause_thresholds |-> [short |-> 5, medium |-> 3, long |-> 2,
                           very_long |-> 0]]

\* the scaling without the cap at 1
ScaledThreshold_uncapped(base, max_minutes) == RoundDiv(base * max_minutes, 7)

\* round(base * scaling_factor) with scaling_factor = min(max_minutes/7, 1):
\* base * min(max_minutes, 7) / 7, rounded
ScaledThreshold(base, max_minutes) == RoundDiv(base * Min(max_minutes, 7), 7)

\* str.replace('—', '-') comes after str.lower(), which changes no character
\* of an explored string. float() is applied to split('-')[1].split()[0]
\* when the string has a hyphen and to split()[0] otherwise; toks = <<>>
\* stands for the IndexError of [0] on an empty list, an exception other
\* than ValueError and AttributeError, which leaves the function
_get_duration_adjusted_thresholds(expected_duration) ==
    IF expected_duration.none THEN DefaultThresholds   \* AttributeError
    ELSE LET s == [i \in 1..Len(expected_duration.str) |->
                     IF expected_duration.str[i] = "emdash" THEN "-"
                     ELSE expected_duration.str[i]]
             toks == IF Contains(s, "-")
                     THEN SplitWhitespace(SplitOn(s, "-")[2])
                     ELSE SplitWhitespace(s)
             max_minutes == DecimalValue(toks[1])
         IN  IF Len(toks) = 0
             THEN [raised |-> "IndexError",
                   filler_thresholds |->
                       [minimal |-> 0, low |-> 0, moderate |-> 0],
                   pause_thresholds |->
                       [short |-> 0, medium |-> 0, long |-> 0, very_long |-> 0]]
             ELSE IF ~IsFloat(toks[1]) THEN DefaultThresholds   \* ValueError
             ELSE [raised |-> "none",
                   filler_thresholds |->
                       [minimal |-> ScaledThreshold(2, max_minutes),
                        low |-> ScaledThreshold(5, max_minutes),
                        moderate |-> ScaledThreshold(8, max_minutes)],
                   pause_thresholds |->
                       [short |-> ScaledThreshold(5, max_minutes),
                        medium |-> ScaledThreshold(3, max_minutes),
                        long |-> ScaledThreshold(2, max_minutes),
                        very_long |-> 0]]

----------------------------------------------------------------------------
(* ProficiencyCalculator *)

\* the per-minute penalties of the low-density branch: score -= 3 / 2 / 1
RECURSIVE PerMinutePenalty(_, _)
PerMinutePenalty(perMinute, keys) ==
    IF keys = {} THEN 0
    ELSE LET m == CHOOSE k \in keys : TRUE
             count == perMinute[m]
         IN  (IF count > 8 THEN 3 ELSE IF count > 5 THEN 2
              ELSE IF count > 2 THEN 1 ELSE 0)
             + PerMinutePenalty(perMinute, keys \ {m})

\* returns the 0-10 filler score as an integer; expected_duration is a
\* parameter the body never reads
_evaluate_filler_words(fa, expected_duration) ==
    LET per_minute_data == fa.FillerWordsPerMinute
        filler_density == fa.FillerDensity
    IN  IF filler_density > 150 THEN 0
        ELSE IF filler_density > 100 THEN Max(0, Min(2, 10))
        ELSE IF filler_density > 50 THEN Max(0, Min(4, 10))
        ELSE Max(0, Min(10 - PerMinutePenalty(per_minute_data,
                                              DOMAIN per_minute_data), 10))

\* the pause score without the hard fail for pauses of more than 5 seconds
_evaluate_pauses_without_hard_fail(pa, expected_duration) ==
    LET s1 == IF pa.under_1_5 > 3 THEN 10 - 2 ELSE 10
        s2 == IF pa.between_1_5_3 > 2 THEN s1 - 3 ELSE s1
        s3 == IF pa.exceeding_3 > 1 THEN s2 - 4 ELSE s2
        total_pauses == pa.under_1_5 + pa.between_1_5_3
                        + pa.exceeding_3 + pa.exceeding_5
        s5 == IF total_pauses > 8 THEN Max(0, s3 - 5) ELSE s3
    IN  Max(0, s5)

\* returns the 0-10 pause score as an integer; expected_duration is a
\* parameter the body never reads
_evaluate_pauses(pa, expected_duration) ==
    LET s1 == IF pa.under_1_5 > 3 THEN 10 - 2 ELSE 10
        s2 == IF pa.between_1_5_3 > 2 THEN s1 - 3 ELSE s1
        s3 == IF pa.exceeding_3 > 1 THEN s2 - 4 ELSE s2
        s4 == IF pa.exceeding_5 > 0 THEN 0 ELSE s3
        total_pauses == pa.under_1_5 + pa.between_1_5_3
                        + pa.exceeding_3 + pa.exceeding_5
        s5 == IF total_pauses > 8 THEN Max(0, s4 - 5) ELSE s4
    IN  Max(0, s5)

\* final_score = ((filler_score * 0.6) + (pause_score * 0.4)) * 2, in tenths
ProficiencyCalculator_calculate(fa, expected_duration) ==
    LET filler_score == _evaluate_filler_words(fa.filler, expected_duration)
        pause_score == _evaluate_pauses(fa.mid_sentence_pauses,
                                        expected_duration)
    IN  [final_score |-> 12 * filler_score + 8 * pause_score,
         filler_score |-> 10 * filler_score,
         pause_score |-> 10 * pause_score,
         filler_density |-> fa.filler.FillerDensity,
         total_fillers |-> fa.filler.TotalFillerWords]

----------------------------------------------------------------------------
(* Calls of ProficiencyCalculator with an expected duration *)

DurIdle ==
    /\ durStep = "idle"
    /\ durArg = NoneDuration
    /\ adjusted = None
    /\ eval_input = None
    /\ eval_scores = None

\* thresholds = self._get_duration_adjusted_thresholds(expected_duration)
AdjustThresholds ==
    /\ durStep = "idle"
    \* the arguments explored: None and the strings of up to MaxDurationLen
    \* characters
    /\ \E d \in {NoneDuration}
             \cup {Str(s) : s \in UNION {[1..n -> Digits \cup {"-", "emdash", " ", "m"}] :
                                            n \in 0..MaxDurationLen}} :
         /\ durArg' = d
         /\ adjusted' = _get_duration_adjusted_thresholds(d)
    /\ durStep' = "adjusted"
    /\ UNCHANGED <<eval_input, eval_scores>>
    /\ UNCHANGED <<scoreVars, aggVars, pipeVars,
                   gatherVars, voiceVars, textVars, apiVars, runVars>>

\* ProficiencyCalculator.calculate(transcription_result, filler_analysis,
\* expected_duration), over four expected durations, transcripts of one
\* minute with a low filler density and the counts of the pause buckets
CalculateProficiency ==
    /\ durStep = "idle"
    /\ \E d \in {NoneDuration, DefaultDuration,
                 Str(<<"1", "-", "2", " ", "m">>),
                 Str(<<"7", "-", "7", " ", "m">>)},
          seg \in [fillers : [1..1 -> 0..MaxFillersPerMinute],
                   others : {WordBlock * MaxBlocks}],
          pa \in [under_1_5 : 0..MaxShortPauses,
                  between_1_5_3 : 0..MaxMediumPauses,
                  exceeding_3 : 0..MaxLongPauses,
                  exceeding_5 : 0..MaxVeryLongPauses] :
         /\ durArg' = d
         /\ eval_input' = FillerWordAnalyzer_analyze(seg, pa)
         /\ eval_scores' = ProficiencyCalculator_calculate(eval_input', d)
    /\ durStep' = "evaluated"
    /\ UNCHANGED adjusted
    /\ UNCHANGED <<scoreVars, aggVars, pipeVars,
                   gatherVars, voiceVars, textVars, apiVars, runVars>>

\* the call has returned
ReturnToCaller ==
    /\ durStep \in {"adjusted", "evaluated"}
    /\ durStep' = "idle"
    /\ durArg' = NoneDuration
    /\ adjusted' = None
    /\ eval_input' = None
    /\ eval_scores' = None
    /\ UNCHANGED <<scoreVars, aggVars, pipeVars,
                   gatherVars, voiceVars, textVars, apiVars, runVars>>

----------------------------------------------------------------------------
(* Scoring steps of one request: SpeechAnalysisService.analyze steps 1-3 *)

PauseMarks ==
    [under_1_5 : 0..MaxPauseCount, between_1_5_3 : 0..MaxPauseCount,
     exceeding_3 : 0..MaxPauseCount, exceeding_5 : 0..MaxPauseCount]

\* short transcripts, word by word
ShortTranscripts ==
    [fillers : [1..MaxMinutes -> 0..MaxFillersPerMinute],
     others : 0..MaxOtherWords]

ScoreIdle ==
    /\ step = "idle"
    /\ segments = None
    /\ filler_analysis = None
    /\ proficiency_analysis = None
    /\ prev = [seen |-> FALSE, filler_density |-> 0, final_score |-> 0]

\* step 1: the transcription result arrives
Transcribe(T) ==
    /\ step = "idle"
    /\ \E seg \in T : segments' = seg
    /\ step' = "transcribed"
    /\ UNCHANGED <<pause_marks, filler_analysis, proficiency_analysis, prev>>
    /\ UNCHANGED <<aggVars, pipeVars, gatherVars,
                   durVars, voiceVars, textVars, apiVars, runVars>>

\* step 2: filler_analysis = await self._analyze_filler_words(...)
AnalyzeFillerWords ==
    /\ step = "transcribed"
    /\ filler_analysis' = FillerWordAnalyzer_analyze(segments, pause_marks)
    /\ step' = "filler_done"
    /\ UNCHANGED <<segments, pause_marks, proficiency_analysis, prev>>
    /\ UNCHANGED <<aggVars, pipeVars, gatherVars,
                   durVars, voiceVars, textVars, apiVars, runVars>>

\* FillerWordAnalyzer.analyze called on its own: the analysis is returned
ReturnFillerAnalysis ==
    /\ step = "filler_done"
    /\ step' = "idle"
    /\ segments' = None
    /\ filler_analysis' = None
    /\ UNCHANGED <<pause_marks, proficiency_analysis, prev>>
    /\ UNCHANGED <<aggVars, pipeVars, gatherVars,
                   durVars, voiceVars, textVars, apiVars, runVars>>

\* step 3: proficiency_analysis = await self._analyze_proficiency(...)
AnalyzeProficiency ==
    /\ step = "filler_done"
    /\ proficiency_analysis' =
           ProficiencyCalculator_calculate(filler_analysis, DefaultDuration)
    /\ step' = "done"
    /\ UNCHANGED <<segments, pause_marks, filler_analysis, prev>>
    /\ UNCHANGED <<aggVars, pipeVars, gatherVars,
                   durVars, voiceVars, textVars, apiVars, runVars>>

\* the request ends; its scores are what the caller saw last
NextRequest ==
    /\ step = "done"
    /\ prev' = [seen |-> TRUE,
                filler_density |-> proficiency_analysis.filler_density,
                final_score |-> proficiency_analysis.final_score]
    /\ step' = "idle"
    /\ segments' = None
    /\ filler_analysis' = None
    /\ proficiency_analysis' = None
    /\ UNCHANGED pause_marks
    /\ UNCHANGED <<aggVars, pipeVars, gatherVars,
                   durVars, voiceVars, textVars, apiVars, runVars>>

\* short transcripts, any pause markers, one request at a time
FinishRequest ==
    /\ step = "done"
    /\ step' = "idle"
    /\ segments' = None
    /\ filler_analysis' = None
    /\ proficiency_analysis' = None
    /\ \E marks \in PauseMarks : pause_marks' = marks
    /\ UNCHANGED prev
    /\ UNCHANGED <<aggVars, pipeVars, gatherVars,
                   durVars, voiceVars, textVars, apiVars, runVars>>

----------------------------------------------------------------------------
(* SpeechAnalysisService: aggregation of the component scores *)

\* the components in the order of the scores dict of _calculate_overall_scores
ComponentOrder ==
    <<"filler_words", "proficiency", "voice_modulation", "grammar",
      "vocabulary", "structure", "pronunciation", "emphasis",
      "topic_relevance">>

Components == {ComponentOrder[i] : i \in DOMAIN ComponentOrder}

\* an analyzer result without its score (for pronunciation, emphasis and
\* topic relevance: the empty result of an analyzer that did not run)
Missing == -1

\* the value range of each analyzer's score on its own scale, in tenths:
\* filler 'Score' 0-10, proficiency 'final_score' 0-20, voice 'total_score'
\* 10-20, 'grammar_score' 10-50, 'word_selection_score' 0-40, the others
\* 0-100
NativeScale ==
    [filler_words     |-> [min |-> 0,   max |-> 100],
     proficiency      |-> [min |-> 0,   max |-> 200],
     voice_modulation |-> [min |-> 100, max |-> 200],
     grammar          |-> [min |-> 100, max |-> 500],
     vocabulary       |-> [min |-> 0,   max |-> 400],
     structure        |-> [min |-> 0,   max |-> 1000],
     pronunciation    |-> [min |-> 0,   max |-> 1000],
     emphasis         |-> [min |-> 0,   max |-> 1000],
     topic_relevance  |-> [min |-> 0,   max |-> 1000]]

\* scores = {"filler_words": filler.get('Score', 5), ...}; -1 stands for None
ComponentScores(a) ==
    [c \in Components |->
        IF a[c] # Missing THEN a[c]
        ELSE CASE c = "filler_words" -> 50
               [] c = "proficiency" -> 100
               [] c = "voice_modulation" -> 100
               [] c = "grammar" -> 250
               [] c = "vocabulary" -> 250
               [] c = "structure" -> 500
               [] c = "pronunciation" -> 500
               [] c = "emphasis" -> 500
               [] c = "topic_relevance" -> -1]

\* weights in thousandths; with topic relevance every weight is multiplied
\* by 0.9 and topic relevance gets 0.10
BaseWeights ==
    [filler_words |-> 100, proficiency |-> 100, voice_modulation |-> 150,
     grammar |-> 150, vocabulary |-> 100, structure |-> 150,
     pronunciation |-> 150, emphasis |-> 100]

\* weights in ten-thousandths, topic relevance added to the table as it is
Weights_not_rescaled(scores) ==
    IF scores["topic_relevance"] # -1
    THEN [c \in Components |->
            IF c = "topic_relevance" THEN 1000 ELSE 10 * BaseWeights[c]]
    ELSE [c \in Components \ {"topic_relevance"} |-> 10 * BaseWeights[c]]

\* weights in ten-thousandths
Weights(scores) ==
    IF scores["topic_relevance"] # -1
    THEN [c \in Components |->
            IF c = "topic_relevance" THEN 1000 ELSE 9 * BaseWeights[c]]
    ELSE [c \in Components \ {"topic_relevance"} |-> 10 * BaseWeights[c]]

RECURSIVE WeightedSum(_, _, _)
WeightedSum(normalized, weights, keys) ==
    IF keys = {} THEN 0
    ELSE LET k == CHOOSE x \in keys : TRUE
         IN  (IF k \in DOMAIN normalized THEN normalized[k] ELSE 500)
               * weights[k]
             + WeightedSum(normalized, weights, keys \ {k})

\* normalize to 0-100: /20 for filler_words, proficiency, voice_modulation,
\* /50 for grammar and vocabulary, the others are kept;
\* returns {**normalized_scores, "overall": round(overall, 1)}
_calculate_overall_scores(a) ==
    LET scores == ComponentScores(a)
        weights == Weights(scores)
        normalized_scores ==
            [c \in {k \in Components : scores[k] # -1} |->
                IF c \in {"filler_words", "proficiency"} THEN 5 * scores[c]
                ELSE IF c = "voice_modulation" THEN 5 * scores[c]
                ELSE IF c \in {"grammar", "vocabulary"} THEN 2 * scores[c]
                ELSE scores[c]]
        overall == WeightedSum(normalized_scores, weights, DOMAIN weights)
    IN  [normalized |-> normalized_scores,
         overall |-> RoundDiv(overall, 10000)]

\* the (key, value) items of the scores dict, in dict order, without overall
ScoreItems(scores) ==
    SelectSeq(ComponentOrder, LAMBDA c : c \in DOMAIN scores.normalized)

\* sorted(items, key=value): a stable sort; desc is reverse=True, which
\* keeps the original order of equal items
RECURSIVE SortedBy(_, _, _)
SortedBy(items, value, desc) ==
    IF items = <<>> THEN <<>>
    ELSE LET better(i, j) == IF desc THEN value[items[i]] > value[items[j]]
                             ELSE value[items[i]] < value[items[j]]
             first == CHOOSE i \in DOMAIN items :
                        /\ \A j \in DOMAIN items : ~better(j, i)
                        /\ \A j \in 1..(i - 1) : better(i, j)
             rest == [k \in 1..(Len(items) - 1) |->
                        IF k < first THEN items[k] ELSE items[k + 1]]
         IN  <<items[first]>> \o SortedBy(rest, value, desc)

\* the top 3 of the components sorted by score, highest first
_identify_strengths(scores) ==
    LET sorted == SortedBy(ScoreItems(scores), scores.normalized, TRUE)
    IN  SubSeq(sorted, 1, Min(3, Len(sorted)))

\* the 3 weakest of the components with a score below 60, lowest first
_generate_suggestions(scores) ==
    LET weak_areas == SelectSeq(ScoreItems(scores),
                                LAMBDA c : scores.normalized[c] < 600)
        sorted == SortedBy(weak_areas, scores.normalized, FALSE)
    IN  SubSeq(sorted, 1, Min(3, Len(sorted)))

----------------------------------------------------------------------------
(* main.py: calculate_overall_score and build_response *)

\* scores.get(name, 0) followed by extract_score, on the scores dict of
\* the analysis result (the normalized scores and 'overall')
ExtractScore(scores, name) ==
    IF name = "overall" THEN scores.overall
    ELSE IF name \in DOMAIN scores.normalized THEN scores.normalized[name]
    ELSE 0

calculate_overall_score(scores) ==
    LET category_scores ==
            <<ExtractScore(scores, "grammar"), ExtractScore(scores, "voice"),
              ExtractScore(scores, "structure"),
              ExtractScore(scores, "effectiveness"),
              ExtractScore(scores, "proficiency")>>
        valid_scores == SelectSeq(category_scores, LAMBDA x : x > 0)
    IN  IF valid_scores = <<>> THEN 0
        ELSE RoundDiv(5 * SumSeq(valid_scores), Len(valid_scores))

\* the result of SpeechAnalysisService.analyze has the keys scores,
\* transcription, detailed_analysis, summary and metadata
build_response(scores) ==
    [status |-> "completed",
     overall_score |-> IF "overall_score" \in {"scores", "transcription",
                                               "detailed_analysis",
                                               "summary", "metadata"}
                       THEN scores.overall
                       ELSE calculate_overall_score(scores),
     scores |-> scores,
     suggestions |-> <<>>]

----------------------------------------------------------------------------
(* Aggregation steps: analyze lines 186-246, analyze_speech lines 312-321 *)

AggIdle ==
    /\ aggStep = "idle"
    /\ analyses = [c \in Components |-> Missing]
    /\ overall_scores = None
    /\ top_strengths = <<>>
    /\ suggestions = <<>>
    /\ response = None

\* the analyzers return their results: each one no score or a score at
\* one of the levels 0..MaxLevel of its scale
AnalyzersReturn ==
    /\ aggStep = "idle"
    /\ \E lv \in [Components -> {Missing} \cup 0..MaxLevel] :
         analyses' =
             [c \in Components |->
                 IF lv[c] = Missing THEN Missing
                 ELSE NativeScale[c].min
                        + (lv[c] * (NativeScale[c].max - NativeScale[c].min))
                            \div MaxLevel]
    /\ aggStep' = "analysed"
    /\ UNCHANGED <<overall_scores, top_strengths, suggestions, response>>
    /\ UNCHANGED <<scoreVars, pipeVars, gatherVars,
                   durVars, voiceVars, textVars, apiVars, runVars>>

\* "Calculating final scores...", suggestions and the summary
CalculateOverallScores ==
    /\ aggStep = "analysed"
    /\ overall_scores' = _calculate_overall_scores(analyses)
    /\ suggestions' = _generate_suggestions(overall_scores')
    /\ top_strengths' = _identify_strengths(overall_scores')
    /\ aggStep' = "compiled"
    /\ UNCHANGED <<analyses, response>>
    /\ UNCHANGED <<scoreVars, pipeVars, gatherVars,
                   durVars, voiceVars, textVars, apiVars, runVars>>

\* analyze_speech builds the response from the analysis result
BuildResponse ==
    /\ aggStep = "compiled"
    /\ response' = build_response(overall_scores)
    /\ aggStep' = "responded"
    /\ UNCHANGED <<analyses, overall_scores, top_strengths, suggestions>>
    /\ UNCHANGED <<scoreVars, pipeVars, gatherVars,
                   durVars, voiceVars, textVars, apiVars, runVars>>

\* the request is over
ReturnResponse ==
    /\ aggStep = "responded"
    /\ aggStep' = "idle"
    /\ analyses' = [c \in Components |-> Missing]
    /\ overall_scores' = None
    /\ top_strengths' = <<>>
    /\ suggestions' = <<>>
    /\ response' = None
    /\ UNCHANGED <<scoreVars, pipeVars, gatherVars,
                   durVars, voiceVars, textVars, apiVars, runVars>>

----------------------------------------------------------------------------
(* TranscriptionAnalyzer and the text the re-analyzers work on *)

\* a transcript is a sequence of tokens: spoken words, the filler "um" and
\* pause markers "[<dur/10>.<dur%10> second pause]" (dur in tenths of a second)
Token(kind, dur) == [kind |-> kind, dur |-> dur]

\* the ASR response: the words, and the time gap after each word but the
\* last in hundredths of a second
AsrResponses ==
    UNION {[words : [1..n -> {"speech", "um"}],
            gaps : [1..Max(n - 1, 0) -> {40, 100, 124}]] : n \in 0..MaxWords}

\* the words with a marker after every gap of 1.0 s or more, and the sum of
\* the marked pauses
RECURSIVE InsertPauses(_, _, _)
InsertPauses(words, gaps, i) ==
    IF i > Len(words) THEN <<>>
    ELSE <<Token(words[i], 0)>>
         \o (IF i < Len(words) /\ gaps[i] >= 100
             THEN <<Token("pause", RoundDiv(gaps[i], 10))>>
             ELSE <<>>)
         \o InsertPauses(words, gaps, i + 1)

_process_transcription(asr) ==
    LET with_pauses == InsertPauses(asr.words, asr.gaps, 1)
        marks == SelectSeq(with_pauses, LAMBDA tok : tok.kind = "pause")
    IN  [text |-> with_pauses,
         total_pause_duration |->
             SumSeq([i \in 1..Len(marks) |-> marks[i].dur])]

\* the pattern \[\d+\.\d+ second pause\]: str(round(gap, 1)) always has
\* digits on both sides of the point
MatchesPausePattern(tok) == tok.kind = "pause" /\ tok.dur >= 0

\* re.sub(r'\[\d+\.\d+ second pause\]', '', text)
StripPauseMarkers(t) == SelectSeq(t, LAMBDA tok : ~MatchesPausePattern(tok))

\* TopicRelevanceAnalyzer._preprocess_text: markers, then um/uh/ah/er/hmm
_preprocess_text(t) ==
    SelectSeq(StripPauseMarkers(t), LAMBDA tok : tok.kind # "um")

\* the text GrammarAnalyzer.analyze hands to the NLP model
GrammarAnalyzer_text(t) == StripPauseMarkers(t)

\* the text StructureAnalyzer.analyze tokenizes
StructureAnalyzer_text(t) == t

\* the text TopicRelevanceAnalyzer.analyze extracts topics from
TopicRelevanceAnalyzer_text(t) == _preprocess_text(t)

----------------------------------------------------------------------------
(* POST /api/v2/analyze: main.analyze_speech and SpeechAnalysisService.analyze *)

Analyzers == {"filler_words", "proficiency", "voice_modulation", "grammar",
              "structure", "pronunciation", "topic_relevance", "emphasis"}

\* the analyzers that receive transcription_result['text'] as a string
TextAnalyzers == {"grammar", "structure", "topic_relevance"}

PipelineSteps == {"transcription"} \cup Analyzers

\* the result an analyzer returns from its except clause: the keys of the
\* dict, its scores (in tenths) and its feedback list
AnalyzerFallback(a) ==
    CASE a = "voice_modulation" ->
           [keys |-> {"error", "scores"},
            scores |-> [total_score |-> 100],
            feedback |-> <<>>]
      [] a = "grammar" ->
           [keys |-> {"grammar_score", "word_selection_score",
                      "combined_score", "feedback"},
            scores |-> [grammar_score |-> 250, word_selection_score |-> 250,
                        combined_score |-> 500],
            feedback |-> <<"Analysis error occurred">>]
      [] a = "structure" ->
           [keys |-> {"structure_score", "feedback"},
            scores |-> [structure_score |-> 500],
            feedback |-> <<"Unable to fully analyze speech structure.">>]
      [] a = "pronunciation" ->
           [keys |-> {"pronunciation_score", "speech_rate", "phoneme_clarity",
                      "feedback"},
            scores |-> [pronunciation_score |-> 500],
            feedback |-> <<"Unable to fully analyze pronunciation.">>]
      [] a = "topic_relevance" ->
           [keys |-> {"topic_relevance_score", "similarity",
                      "key_speech_topics", "feedback"},
            scores |-> [topic_relevance_score |-> 500],
            feedback |-> <<"Unable to fully analyze topic relevance.">>]
      [] a = "emphasis" ->
           [keys |-> {"emphasis_score", "feedback"},
            scores |-> [emphasis_score |-> 500],
            feedback |-> <<"Unable to fully analyze emphasis. Focus on varying your tone to highlight key points.">>]

\* settings.ENABLE_TOPIC_RELEVANCE, settings.ENABLE_EMPHASIS_ANALYSIS
ENABLE_TOPIC_RELEVANCE == TRUE
ENABLE_EMPHASIS_ANALYSIS == TRUE

\* settings.ANALYSIS_TIMEOUT, in seconds; no code reads it
ANALYSIS_TIMEOUT == 300

Requests ==
    [filename_ok : BOOLEAN,      \* a filename with an allowed extension
     upload_ok : BOOLEAN,        \* save_upload can store and load the audio
     analysis_depth : {"basic", "standard", "advanced"},
     topic : BOOLEAN,            \* a topic was given
     asr : AsrResponses,         \* what the ASR hears in the recording
     \* the time analyze takes: within, at and beyond the timeout
     analysis_seconds :
         {ANALYSIS_TIMEOUT - 1, ANALYSIS_TIMEOUT, ANALYSIS_TIMEOUT + 1}]

NoRequest ==
    [filename_ok |-> FALSE, upload_ok |-> FALSE, analysis_depth |-> "basic",
     topic |-> FALSE, asr |-> [words |-> <<>>, gaps |-> <<>>],
     analysis_seconds |-> 0]

NoResponse == [status |-> 0, scores |-> FALSE]

\* the analyzers analyze calls for a request
EnabledAnalyzers(req) ==
    {"filler_words", "proficiency", "voice_modulation", "grammar",
     "structure"}
    \cup (IF req.analysis_depth \in {"standard", "advanced"}
          THEN {"pronunciation"} ELSE {})
    \cup (IF req.analysis_depth = "advanced" /\ req.topic
             /\ ENABLE_TOPIC_RELEVANCE
          THEN {"topic_relevance"} ELSE {})
    \cup (IF req.analysis_depth = "advanced" /\ ENABLE_EMPHASIS_ANALYSIS
          THEN {"emphasis"} ELSE {})

PipeIdle ==
    /\ pc = "idle"
    /\ request = NoRequest
    /\ text = <<>>
    /\ results = [s \in PipelineSteps |-> "absent"]
    /\ tokenized = [a \in TextAnalyzers |-> <<>>]
    /\ http = NoResponse
    /\ saved = "not_called"

\* an exception leaves the try block of analyze_speech
Fail(exc) ==
    /\ pc' = "responded"
    \* the except clauses of analyze_speech: the status of the HTTPException
    /\ http' = [status |-> CASE exc = "AudioProcessingError" -> 422
                              [] exc = "AnalysisError" -> 500
                              [] OTHER -> 500,
                scores |-> FALSE]

ReceiveRequest ==
    /\ pc = "idle"
    /\ request' \in Requests
    /\ pc' = "validate"
    /\ UNCHANGED <<text, results, tokenized, http, saved>>
    /\ UNCHANGED <<scoreVars, aggVars, gatherVars,
                   durVars, voiceVars, textVars, apiVars, runVars>>

\* "Validate audio file": the HTTPException(400) is raised inside the try
ValidateFile ==
    /\ pc = "validate"
    /\ IF request.filename_ok
       THEN pc' = "save_upload" /\ UNCHANGED http
       ELSE Fail("HTTPException")
    /\ UNCHANGED <<request, text, results, tokenized, saved>>
    /\ UNCHANGED <<scoreVars, aggVars, gatherVars,
                   durVars, voiceVars, textVars, apiVars, runVars>>

\* audio_service.save_upload
SaveUpload ==
    /\ pc = "save_upload"
    /\ IF request.upload_ok
       THEN pc' = "transcribe" /\ UNCHANGED http
       ELSE Fail("AudioProcessingError")
    /\ UNCHANGED <<request, text, results, tokenized, saved>>
    /\ UNCHANGED <<scoreVars, aggVars, gatherVars,
                   durVars, voiceVars, textVars, apiVars, runVars>>

\* an analyzer without a try/except of its own: its exception reaches the
\* except clause of analyze (lines 248-250) and becomes an AnalysisError
RunUnguarded(a, next) ==
    \E raises \in BOOLEAN :
        IF raises
        THEN /\ results' = [results EXCEPT ![a] = "raised"]
             /\ Fail("AnalysisError")
        ELSE /\ results' = [results EXCEPT ![a] = "computed"]
             /\ pc' = next
             /\ UNCHANGED http

\* an analyzer that catches its own exception and returns its fallback
RunGuarded(a, next) ==
    \E raises \in BOOLEAN :
        /\ results' = [results EXCEPT
                         ![a] = IF raises THEN "fallback" ELSE "computed"]
        /\ pc' = next
        /\ UNCHANGED http

\* a step analyze does not take for this request
SkipStep(next) ==
    /\ pc' = next
    /\ UNCHANGED <<results, http>>

\* a transcription whose failure is swallowed: analysis goes on with an
\* empty transcript
StepTranscribe_swallowing ==
    /\ pc = "transcribe"
    /\ \E fate \in {"computed", "open_failed", "asr_raised"} :
         /\ results' = [results EXCEPT !["transcription"] = fate]
         /\ text' = IF fate = "computed"
                    THEN _process_transcription(request.asr).text
                    ELSE <<>>
         /\ pc' = "filler_words"
         /\ UNCHANGED http
    /\ UNCHANGED <<request, tokenized, saved>>
    /\ UNCHANGED <<scoreVars, aggVars, gatherVars,
                   durVars, voiceVars, textVars, apiVars, runVars>>

\* Step 1/8: open(audio_path) or the ASR call may raise
StepTranscribe ==
    /\ pc = "transcribe"
    /\ \E fate \in {"computed", "open_failed", "asr_raised"} :
         /\ results' = [results EXCEPT !["transcription"] = fate]
         /\ IF fate = "computed"
            THEN /\ text' = _process_transcription(request.asr).text
                 /\ pc' = "filler_words"
                 /\ UNCHANGED http
            ELSE /\ UNCHANGED text
                 /\ Fail("AnalysisError")
    /\ UNCHANGED <<request, tokenized, saved>>
    /\ UNCHANGED <<scoreVars, aggVars, gatherVars,
                   durVars, voiceVars, textVars, apiVars, runVars>>

\* Step 2/8
StepFillerWords ==
    /\ pc = "filler_words"
    /\ RunUnguarded("filler_words", "proficiency")
    /\ UNCHANGED <<request, text, tokenized, saved>>
    /\ UNCHANGED <<scoreVars, aggVars, gatherVars,
                   durVars, voiceVars, textVars, apiVars, runVars>>

\* Step 3/8
StepProficiency ==
    /\ pc = "proficiency"
    /\ RunUnguarded("proficiency", "voice_modulation")
    /\ UNCHANGED <<request, text, tokenized, saved>>
    /\ UNCHANGED <<scoreVars, aggVars, gatherVars,
                   durVars, voiceVars, textVars, apiVars, runVars>>

\* Step 4/8
StepVoice ==
    /\ pc = "voice_modulation"
    /\ RunGuarded("voice_modulation", "grammar")
    /\ UNCHANGED <<request, text, tokenized, saved>>
    /\ UNCHANGED <<scoreVars, aggVars, gatherVars,
                   durVars, voiceVars, textVars, apiVars, runVars>>

\* Step 5/8
StepGrammar ==
    /\ pc = "grammar"
    /\ tokenized' = [tokenized EXCEPT !["grammar"] = GrammarAnalyzer_text(text)]
    /\ RunGuarded("grammar", "structure")
    /\ UNCHANGED <<request, text, saved>>
    /\ UNCHANGED <<scoreVars, aggVars, gatherVars,
                   durVars, voiceVars, textVars, apiVars, runVars>>

\* Step 6/8
StepStructure ==
    /\ pc = "structure"
    /\ tokenized' = [tokenized EXCEPT
                       !["structure"] = StructureAnalyzer_text(text)]
    /\ RunGuarded("structure", "pronunciation")
    /\ UNCHANGED <<request, text, saved>>
    /\ UNCHANGED <<scoreVars, aggVars, gatherVars,
                   durVars, voiceVars, textVars, apiVars, runVars>>

\* Step 7/8, for the depths standard and advanced
StepPronunciation ==
    /\ pc = "pronunciation"
    /\ IF "pronunciation" \in EnabledAnalyzers(request)
       THEN RunGuarded("pronunciation", "topic_relevance")
       ELSE SkipStep("topic_relevance")
    /\ UNCHANGED <<request, text, tokenized, saved>>
    /\ UNCHANGED <<scoreVars, aggVars, gatherVars,
                   durVars, voiceVars, textVars, apiVars, runVars>>

\* Step 8a/8, for the depth advanced with a topic
StepTopicRelevance ==
    /\ pc = "topic_relevance"
    /\ IF "topic_relevance" \in EnabledAnalyzers(request)
       THEN /\ tokenized' = [tokenized EXCEPT !["topic_relevance"] =
                                TopicRelevanceAnalyzer_text(text)]
            /\ RunGuarded("topic_relevance", "emphasis")
       ELSE /\ UNCHANGED tokenized
            /\ SkipStep("emphasis")
    /\ UNCHANGED <<request, text, saved>>
    /\ UNCHANGED <<scoreVars, aggVars, gatherVars,
                   durVars, voiceVars, textVars, apiVars, runVars>>

\* Step 8b/8, for the depth advanced
StepEmphasis ==
    /\ pc = "emphasis"
    /\ IF "emphasis" \in EnabledAnalyzers(request)
       THEN RunGuarded("emphasis", "compile")
       ELSE SkipStep("compile")
    /\ UNCHANGED <<request, text, tokenized, saved>>
    /\ UNCHANGED <<scoreVars, aggVars, gatherVars,
                   durVars, voiceVars, textVars, apiVars, runVars>>

\* "Calculating final scores...": analyze returns the compiled result
CompileResult ==
    /\ pc = "compile"
    /\ pc' = "build_response"
    /\ UNCHANGED <<request, text, results, tokenized, http, saved>>
    /\ UNCHANGED <<scoreVars, aggVars, gatherVars,
                   durVars, voiceVars, textVars, apiVars, runVars>>

\* build_response(analysis_results, ...)
BuildHttpResponse ==
    /\ pc = "build_response"
    /\ pc' = "save_analysis"
    /\ UNCHANGED <<request, text, results, tokenized, http, saved>>
    /\ UNCHANGED <<scoreVars, aggVars, gatherVars,
                   durVars, voiceVars, textVars, apiVars, runVars>>

\* storage_service.save_analysis: a failed write raises StorageError
SaveAnalysis ==
    /\ pc = "save_analysis"
    /\ \E stored \in BOOLEAN :
         IF stored
         THEN saved' = "stored" /\ pc' = "return" /\ UNCHANGED http
         ELSE saved' = "failed" /\ Fail("StorageError")
    /\ UNCHANGED <<request, text, results, tokenized>>
    /\ UNCHANGED <<scoreVars, aggVars, gatherVars,
                   durVars, voiceVars, textVars, apiVars, runVars>>

\* the cleanup is scheduled and the response returned
ReturnHttpResponse ==
    /\ pc = "return"
    /\ http' = [status |-> 200, scores |-> TRUE]
    /\ pc' = "responded"
    /\ UNCHANGED <<request, text, results, tokenized, saved>>
    /\ UNCHANGED <<scoreVars, aggVars, gatherVars,
                   durVars, voiceVars, textVars, apiVars, runVars>>

\* the request is over, the next one may come
CloseRequest ==
    /\ pc = "responded"
    /\ pc' = "idle"
    /\ request' = NoRequest
    /\ text' = <<>>
    /\ results' = [s \in PipelineSteps |-> "absent"]
    /\ tokenized' = [a \in TextAnalyzers |-> <<>>]
    /\ http' = NoResponse
    /\ saved' = "not_called"
    /\ UNCHANGED <<scoreVars, aggVars, gatherVars,
                   durVars, voiceVars, textVars, apiVars, runVars>>

----------------------------------------------------------------------------
(* SpeechAnalyzerService.analyze_speech, lines 72-123: the two analyses run *)
(* under asyncio.gather, then evaluate and _aggregate_results               *)

GatherTasks == {"voice", "content"}

NoResult == [none |-> TRUE]

\* VoiceAnalysisEngine.analyze: the placeholder result;
\* ContentAnalysisEngine.analyze: score from the percentage of filler words;
\* the percentage is kept in hundredths, the precision of round(x, 2)
AnalyzerResult(t, tt) ==
    LET filler_count == tt.fillers
        word_count == tt.fillers + tt.others
    IN  IF t = "voice" THEN [pitch_analysis |-> 75, voice_modulation |-> 75]
        ELSE
        [filler_count |-> filler_count,
         percentage |-> IF word_count > 0
                        THEN RoundDiv(filler_count * 10000, word_count)
                        ELSE 0,
         score |-> IF word_count = 0 \/ filler_count * 100 < 2 * word_count
                   THEN 100
                   ELSE IF filler_count * 100 < 5 * word_count THEN 80
                   ELSE IF filler_count * 100 < 10 * word_count THEN 60
                   ELSE 40,
         word_count |-> word_count]

\* SpeechEvaluationEngine._extract_scores: every lookup is by key, with a
\* default for a missing key; values below 0 become 50, above 100 become 100
ValidScore(value) ==
    IF value < 0 THEN 50 ELSE IF value > 100 THEN 100 ELSE value

_extract_scores(voice_results, content_results) ==
    [voice_modulation |->
         ValidScore(IF "voice_modulation" \in DOMAIN voice_results
                    THEN voice_results.voice_modulation ELSE 50),
     grammar_vocabulary |-> ValidScore(50),
     proficiency |-> ValidScore(50),
     filler_words |->
         ValidScore(IF "score" \in DOMAIN content_results
                    THEN content_results.score ELSE 70),
     structure |-> ValidScore(50),
     effectiveness |-> ValidScore(50)]

\* speech_evaluation_engine.py, lines 146-162: the average of five categories
\* read by the keys grammar, voice, structure, effectiveness, proficiency
\* (0 for a key the breakdown does not have), rescaled from 0-20 to 0-100;
\* kept in tenths
CategoryScore(scores, key) ==
    IF key \in DOMAIN scores THEN scores[key] ELSE 0

SpeechEvaluationEngine_calculate_overall_score(scores) ==
    LET sum == CategoryScore(scores, "grammar") + CategoryScore(scores, "voice")
               + CategoryScore(scores, "structure")
               + CategoryScore(scores, "effectiveness")
               + CategoryScore(scores, "proficiency")
    IN  RoundDiv(sum * 100 * 10, 5 * 20)

NoScores == _extract_scores(NoResult, NoResult)

NoEvaluation ==
    [started |-> FALSE, aggregated |-> FALSE,
     inputs |-> [t \in GatherTasks |-> NoResult],
     score_breakdown |-> NoScores, overall_score |-> 0]

GatherIdle ==
    /\ gpc = "idle"
    /\ transcript_text = [fillers |-> 0, others |-> 0]
    /\ tasks = [t \in GatherTasks |-> [status |-> "none", result |-> NoResult]]
    /\ gathered = [t \in GatherTasks |-> NoResult]
    /\ evaluation = NoEvaluation
    /\ completion_order = <<>>
    /\ last_call = [seen |-> FALSE,
                    transcript_text |-> [fillers |-> 0, others |-> 0],
                    completion_order |-> <<>>,
                    score_breakdown |-> NoScores, overall_score |-> 0]

\* lines 75-87: the coroutines voice_task and content_task are created
CreateTasks ==
    /\ gpc = "idle"
    \* the transcript handed to the analyzers: filler words and other words
    /\ transcript_text' \in [fillers : 0..MaxSpokenFillers,
                             others : 0..MaxPlainWords]
    /\ tasks' = [t \in GatherTasks |->
                   [status |-> "created", result |-> NoResult]]
    /\ gpc' = "gather"
    /\ UNCHANGED <<gathered, evaluation, completion_order, last_call>>
    /\ UNCHANGED <<scoreVars, aggVars, pipeVars,
                   durVars, voiceVars, textVars, apiVars, runVars>>

\* line 90: asyncio.gather schedules both coroutines and awaits them
LaunchTasks ==
    /\ gpc = "gather"
    /\ tasks' = [t \in GatherTasks |-> [tasks[t] EXCEPT !.status = "running"]]
    /\ gpc' = "awaiting"
    /\ UNCHANGED <<transcript_text, gathered, evaluation, completion_order,
                   last_call>>
    /\ UNCHANGED <<scoreVars, aggVars, pipeVars,
                   durVars, voiceVars, textVars, apiVars, runVars>>

\* a launched analyzer returns its result or raises; a task is not cancelled
\* when gather has already raised
TaskEnds(t) ==
    /\ tasks[t].status = "running"
    /\ \E raises \in BOOLEAN :
         /\ tasks' = [tasks EXCEPT ![t] =
                        IF raises
                        THEN [status |-> "failed", result |-> NoResult]
                        ELSE [status |-> "completed",
                              result |-> AnalyzerResult(t, transcript_text)]]
         /\ completion_order' = IF raises THEN completion_order
                                ELSE Append(completion_order, t)
    /\ UNCHANGED <<gpc, transcript_text, gathered, evaluation, last_call>>
    /\ UNCHANGED <<scoreVars, aggVars, pipeVars,
                   durVars, voiceVars, textVars, apiVars, runVars>>

\* lines 90-93: the awaitables in the order they are passed to gather, and
\* the names the returned list is unpacked into
GatherArguments == <<"voice", "content">>

\* a result list in the order the analyzers returned
ResultsInCompletionOrder ==
    [i \in 1..Len(GatherArguments) |->
        IF i <= Len(completion_order) THEN tasks[completion_order[i]].result
        ELSE NoResult]

\* gather's result list is in the order of its arguments
ResultsInArgumentOrder ==
    [i \in 1..Len(GatherArguments) |-> tasks[GatherArguments[i]].result]

\* voice_results, content_results = <the list>
Unpack(list) ==
    [t \in GatherTasks |->
        list[CHOOSE i \in 1..Len(GatherArguments) : GatherArguments[i] = t]]

\* a wait that returns with the first completed analyzer
GatherReturns_first_completed ==
    /\ gpc = "awaiting"
    /\ \E t \in GatherTasks : tasks[t].status = "completed"
    /\ gathered' = Unpack(ResultsInArgumentOrder)
    /\ gpc' = "evaluate"
    /\ UNCHANGED <<transcript_text, tasks, evaluation, completion_order,
                   last_call>>
    /\ UNCHANGED <<scoreVars, aggVars, pipeVars,
                   durVars, voiceVars, textVars, apiVars, runVars>>

\* gather returns the list of results once every awaitable has completed
GatherReturns ==
    /\ gpc = "awaiting"
    /\ \A t \in GatherTasks : tasks[t].status = "completed"
    /\ gathered' = Unpack(ResultsInArgumentOrder)
    /\ gpc' = "evaluate"
    /\ UNCHANGED <<transcript_text, tasks, evaluation, completion_order,
                   last_call>>
    /\ UNCHANGED <<scoreVars, aggVars, pipeVars,
                   durVars, voiceVars, textVars, apiVars, runVars>>

\* gather (return_exceptions=False) raises the first exception to the
\* awaiter; lines 125-127 log and re-raise
GatherRaises ==
    /\ gpc = "awaiting"
    /\ \E t \in GatherTasks : tasks[t].status = "failed"
    /\ gpc' = "raised"
    /\ UNCHANGED <<transcript_text, tasks, gathered, evaluation,
                   completion_order, last_call>>
    /\ UNCHANGED <<scoreVars, aggVars, pipeVars,
                   durVars, voiceVars, textVars, apiVars, runVars>>

\* lines 97-103: evaluation_engine.evaluate(voice_results, content_results)
Evaluate ==
    /\ gpc = "evaluate"
    /\ LET scores == _extract_scores(gathered["voice"], gathered["content"])
       IN  evaluation' = [evaluation EXCEPT
                            !.started = TRUE,
                            !.inputs = gathered,
                            !.score_breakdown = scores,
                            !.overall_score =
                                SpeechEvaluationEngine_calculate_overall_score(
                                    scores)]
    /\ \E raises \in BOOLEAN : gpc' = IF raises THEN "raised" ELSE "aggregate"
    /\ UNCHANGED <<transcript_text, tasks, gathered, completion_order,
                   last_call>>
    /\ UNCHANGED <<scoreVars, aggVars, pipeVars,
                   durVars, voiceVars, textVars, apiVars, runVars>>

\* lines 107-123: _aggregate_results, return final_result
AggregateResults ==
    /\ gpc = "aggregate"
    /\ evaluation' = [evaluation EXCEPT !.aggregated = TRUE]
    /\ gpc' = "returned"
    /\ UNCHANGED <<transcript_text, tasks, gathered, completion_order,
                   last_call>>
    /\ UNCHANGED <<scoreVars, aggVars, pipeVars,
                   durVars, voiceVars, textVars, apiVars, runVars>>

\* the call is over and the event loop has run the tasks to their end; the
\* result of a call that returned is kept for comparison with the next call
NextCall ==
    /\ gpc \in {"returned", "raised"}
    /\ \A t \in GatherTasks : tasks[t].status # "running"
    /\ last_call' = IF gpc = "returned"
                    THEN [seen |-> TRUE,
                          transcript_text |-> transcript_text,
                          completion_order |-> completion_order,
                          score_breakdown |-> evaluation.score_breakdown,
                          overall_score |-> evaluation.overall_score]
                    ELSE last_call
    /\ gpc' = "idle"
    /\ transcript_text' = [fillers |-> 0, others |-> 0]
    /\ tasks' = [t \in GatherTasks |-> [status |-> "none", result |-> NoResult]]
    /\ gathered' = [t \in GatherTasks |-> NoResult]
    /\ evaluation' = NoEvaluation
    /\ completion_order' = <<>>
    /\ UNCHANGED <<scoreVars, aggVars, pipeVars,
                   durVars, voiceVars, textVars, apiVars, runVars>>

----------------------------------------------------------------------------
(* VoiceModulationAnalyzer: the scores of analyze, lines 49-62, in tenths *)

\* what analyze can measure on a recording:
\*  - np.std(pitch_values) and np.max - np.min of the voiced frames, in Hz,
\*    on both sides of every threshold of _calculate_pitch_score; a standard
\*    deviation is at most half the range;
\*  - intensity.values[0]: one level in dB per frame, at least one frame;
\*  - emphasis_points: frame indices i >= 1 (counted from 0) of
\*    _detect_emphasis_points, which follow the pitch frames and may lie
\*    beyond the last intensity frame;
\*  - len(y)/sr in seconds;
\*  - the quality factor min(1.0, max(0.0, ...)) of _assess_audio_quality,
\*    in hundredths
VoiceFeatures ==
    {f \in [std_pitch : {0, 8, 14, 15, 50, 51, 60, 61},
            pitch_range : {0, 39, 40, 50, 200, 201, 250, 251},
            intensity_values :
                UNION {[1..n -> {20, 50, 100}] : n \in 1..MaxFrames},
            emphasis_points : SUBSET (1..MaxFrames),
            duration : {1, 10, 11},
            quality_factor : {49, 50, 69, 70, 89, 90}] :
        2 * f.std_pitch <= f.pitch_range}

SeqMax(xs) == CHOOSE x \in {xs[i] : i \in DOMAIN xs} :
                  \A i \in DOMAIN xs : xs[i] <= x

\* lines 111-128 without the clamp of line 130
_calculate_pitch_score_unclamped(std_pitch, pitch_range) ==
    LET s1 == IF std_pitch < 8 THEN 100 - 50
              ELSE IF std_pitch < 15 THEN 100 - 30
              ELSE IF std_pitch > 60 THEN 100 - 40
              ELSE 100
        s2 == IF pitch_range < 40 THEN s1 - 30
              ELSE IF pitch_range > 250 THEN s1 - 20
              ELSE s1
        s3 == IF 15 <= std_pitch /\ std_pitch <= 50
                 /\ 50 <= pitch_range /\ pitch_range <= 200
              THEN s2 + 10 ELSE s2
    IN  s3

\* lines 111-130; mean_pitch is not read
_calculate_pitch_score(std_pitch, pitch_range) ==
    LET s1 == IF std_pitch < 8 THEN 100 - 50
              ELSE IF std_pitch < 15 THEN 100 - 30
              ELSE IF std_pitch > 60 THEN 100 - 40
              ELSE 100
        s2 == IF pitch_range < 40 THEN s1 - 30
              ELSE IF pitch_range > 250 THEN s1 - 20
              ELSE s1
        s3 == IF 15 <= std_pitch /\ std_pitch <= 50
                 /\ 50 <= pitch_range /\ pitch_range <= 200
              THEN s2 + 10 ELSE s2
    IN  Max(50, Min(100, s3))

\* lines 132-147; v is n^2 times the variance of the intensities:
\* np.std(xs) > t iff v > t^2 n^2
_calculate_volume_score(intensity_values) ==
    LET n == Len(intensity_values)
        v == n * SumSeq([i \in DOMAIN intensity_values |->
                           intensity_values[i] * intensity_values[i]])
               - SumSeq(intensity_values) * SumSeq(intensity_values)
        intensity_range ==
            SeqMax(intensity_values)
              - (CHOOSE x \in {intensity_values[i] : i \in DOMAIN intensity_values} :
                    \A i \in DOMAIN intensity_values : intensity_values[i] >= x)
        s1 == IF v > 20 * 20 * n * n THEN 100 - 20 ELSE 100
        s2 == IF intensity_range > 50 THEN s1 - 20 ELSE s1
        s3 == IF 10 * 10 * n * n <= v /\ v <= 18 * 18 * n * n
              THEN s2 + 10 ELSE s2
    IN  Max(50, Min(100, s3))

\* lines 181-196: the emphasis points per quarter; a point's quarter is
\* int(point / len(emphasis_points) * 4), at most the last one
_calculate_emphasis_distribution(emphasis_points) ==
    IF emphasis_points = {} THEN <<>>
    ELSE LET count == Cardinality(emphasis_points)
         IN  [k \in 1..4 |->
                 Cardinality({p \in emphasis_points :
                                 Min(3, (4 * p) \div count) = k - 1})]

\* lines 149-179; pitch_values is not read. duration > 0
_calculate_emphasis_score(emphasis_points, duration, intensity_values) ==
    LET actual_count == Cardinality(emphasis_points)
        \* emphasis_ratio = actual_count / (duration / 4)
        low == 10 * 4 * actual_count < 4 * duration
        high == 10 * 4 * actual_count > 25 * duration
        s1 == IF low THEN 100 - 30 ELSE IF high THEN 100 - 20 ELSE 100
        distribution == _calculate_emphasis_distribution(emphasis_points)
        s2 == IF distribution # <<>>
                 /\ 10 * SeqMax(distribution) > 6 * actual_count
              THEN s1 - 20 ELSE s1
        n == Len(intensity_values)
        emphasized == {p \in emphasis_points : p < n}
        ne == Cardinality(emphasized)
        \* intensity_values[p] of the source is the frame p + 1 here
        emphasis_sum == SumSeq([i \in 1..n |->
                                  IF (i - 1) \in emphasized
                                  THEN intensity_values[i] ELSE 0])
        base_sum == SumSeq(intensity_values)
        s3 == IF ne = 0 THEN s2
              ELSE IF 100 * emphasis_sum * n < 105 * base_sum * ne THEN s2 - 10
              ELSE IF 10 * emphasis_sum * n > 16 * base_sum * ne THEN s2 - 10
              ELSE s2
        s4 == IF ~low /\ ~high THEN s3 + 10 ELSE s3
    IN  Max(50, Min(100, s4))

\* lines 214-222, the quality factor in hundredths
_calculate_quality_compensation(quality_factor) ==
    IF quality_factor < 50 THEN 20
    ELSE IF quality_factor < 70 THEN 15
    ELSE IF quality_factor < 90 THEN 10
    ELSE 0

\* the sum without the cap at 10
_adjust_score_for_quality_uncapped(score, compensation) ==
    score + compensation

\* lines 224-226
_adjust_score_for_quality(score, compensation) ==
    Min(100, score + compensation)

NoFeatures ==
    [std_pitch |-> 0, pitch_range |-> 0, intensity_values |-> <<>>,
     emphasis_points |-> {}, duration |-> 0, quality_factor |-> 0]

NoVoiceScores ==
    [pitch_score |-> 0, volume_score |-> 0, raw_emphasis_score |-> 0,
     pitch_and_volume_score |-> 0, emphasis_score |-> 0, total_score |-> 0]

VoiceIdle ==
    /\ vpc = "idle"
    /\ voice_features = NoFeatures
    /\ voice_scores = NoVoiceScores

\* lines 23-47: the recording is loaded and measured
MeasureRecording ==
    /\ vpc = "idle"
    /\ voice_features' \in VoiceFeatures
    /\ vpc' = "measured"
    /\ UNCHANGED voice_scores
    /\ UNCHANGED <<scoreVars, aggVars, pipeVars,
                   gatherVars, durVars, textVars, apiVars, runVars>>

\* lines 23-47 on a recording of LongFrames frames of steady volume and a
\* lively pitch: its emphasis points are the frames 1..LongFrames-2 where
\* the pitch jumps
MeasureLongRecording ==
    /\ vpc = "idle"
    /\ \E points \in SUBSET (1..(LongFrames - 2)) :
         voice_features' =
             [std_pitch |-> 50, pitch_range |-> 200,
              intensity_values |-> [i \in 1..LongFrames |-> 50],
              emphasis_points |-> points,
              duration |-> 10, quality_factor |-> 90]
    /\ vpc' = "measured"
    /\ UNCHANGED voice_scores
    /\ UNCHANGED <<scoreVars, aggVars, pipeVars,
                   gatherVars, durVars, textVars, apiVars, runVars>>

\* lines 50-54: pitch_vol_score, the mean of the pitch and volume scores,
\* adjusted for quality
ScorePitchAndVolume ==
    /\ vpc = "measured"
    /\ LET pitch == _calculate_pitch_score(voice_features.std_pitch,
                                           voice_features.pitch_range)
           volume == _calculate_volume_score(voice_features.intensity_values)
           compensation ==
               _calculate_quality_compensation(voice_features.quality_factor)
       IN  voice_scores' =
               [voice_scores EXCEPT
                  !.pitch_score = pitch,
                  !.volume_score = volume,
                  !.pitch_and_volume_score =
                      _adjust_score_for_quality((pitch + volume) \div 2,
                                                compensation)]
    /\ vpc' = "pitch_volume_scored"
    /\ UNCHANGED voice_features
    /\ UNCHANGED <<scoreVars, aggVars, pipeVars,
                   gatherVars, durVars, textVars, apiVars, runVars>>

\* lines 56-62: emphasis_score, adjusted for quality, and total_score
ScoreEmphasis ==
    /\ vpc = "pitch_volume_scored"
    /\ LET emphasis ==
               _calculate_emphasis_score(voice_features.emphasis_points,
                                         voice_features.duration,
                                         voice_features.intensity_values)
           compensation ==
               _calculate_quality_compensation(voice_features.quality_factor)
           adjusted_emphasis == _adjust_score_for_quality(emphasis,
                                                          compensation)
       IN  voice_scores' =
               [voice_scores EXCEPT
                  !.raw_emphasis_score = emphasis,
                  !.emphasis_score = adjusted_emphasis,
                  !.total_score =
                      voice_scores.pitch_and_volume_score + adjusted_emphasis]
    /\ vpc' = "scored"
    /\ UNCHANGED voice_features
    /\ UNCHANGED <<scoreVars, aggVars, pipeVars,
                   gatherVars, durVars, textVars, apiVars, runVars>>

\* lines 64-87: the result is returned
ReturnVoiceAnalysis ==
    /\ vpc = "scored"
    /\ vpc' = "idle"
    /\ voice_features' = NoFeatures
    /\ voice_scores' = NoVoiceScores
    /\ UNCHANGED <<scoreVars, aggVars, pipeVars,
                   gatherVars, durVars, textVars, apiVars, runVars>>

----------------------------------------------------------------------------
(* Pause markers in the transcription text, character by character:        *)
(* TranscriptionAnalyzer, process_transcription, GrammarAnalyzer and       *)
(* _analyze_mid_sentence_pauses. Times and gaps are in hundredths of a     *)
(* second, pause durations in tenths, the precision of round(x, 1).        *)

\* the literal tail of a pause marker
SecondPause ==
    <<" ", "s", "e", "c", "o", "n", "d", " ", "p", "a", "u", "s", "e", "]">>

\* str(n) of a non-negative int
RECURSIVE IntStr(_)
IntStr(n) ==
    IF n < 10 THEN <<DecimalDigits[n + 1]>>
    ELSE IntStr(n \div 10) \o <<DecimalDigits[(n % 10) + 1]>>

\* a marker that prints a whole number of seconds without its decimal part
pause_marker_short_repr(time_gap) ==
    LET pause_duration == RoundDiv(time_gap, 10)
    IN  <<"[">> \o IntStr(pause_duration \div 10)
          \o (IF pause_duration % 10 = 0 THEN <<>>
              ELSE <<".">> \o IntStr(pause_duration % 10))
          \o SecondPause

\* f"[{round(time_gap, 1)} second pause]": the repr of a float has a digit
\* on both sides of the point
pause_marker(time_gap) ==
    LET pause_duration == RoundDiv(time_gap, 10)
    IN  <<"[">> \o IntStr(pause_duration \div 10)
          \o <<".">> \o IntStr(pause_duration % 10) \o SecondPause

\* ' '.join(pieces)
RECURSIVE Join(_)
Join(pieces) ==
    IF Len(pieces) = 0 THEN <<>>
    ELSE IF Len(pieces) = 1 THEN pieces[1]
    ELSE pieces[1] \o <<" ">> \o Join(Tail(pieces))

\* re.sub(r'\s+', ' ', s).strip(): a blank is kept when it is the first of
\* its run and the run is neither at the start nor at the end
NormalizeWhitespace(s) ==
    LET kept == SelectSeq([i \in 1..Len(s) |-> <<i, s[i]>>],
                          LAMBDA p : \/ p[2] # " "
                                     \/ /\ p[1] > 1
                                        /\ s[p[1] - 1] # " "
                                        /\ \E j \in (p[1] + 1)..Len(s) :
                                              s[j] # " ")
    IN  [k \in 1..Len(kept) |-> kept[k][2]]

\* the last index of the longest run of characters of class that starts at
\* s[i]; i - 1 when s[i] is not of the class
RunEnd(s, i, class) ==
    CHOOSE j \in (i - 1)..Len(s) :
        /\ \A k \in i..j : s[k] \in class
        /\ j = Len(s) \/ s[j + 1] \notin class

\* re.match of \[\d+\.\d+ second pause\] at s[i]: the index the match ends
\* at, 0 when there is no match
MatchPauseMarker(s, i) ==
    LET digit == {DecimalDigits[k] : k \in 1..10}
        a == RunEnd(s, i + 1, digit)
        b == RunEnd(s, a + 2, digit)
        e == b + Len(SecondPause)
    IN  IF /\ s[i] = "["
           /\ a >= i + 1
           /\ a + 1 <= Len(s)
           /\ s[a + 1] = "."
           /\ b >= a + 2
           /\ e <= Len(s)
           /\ SubSeq(s, b + 1, e) = SecondPause
        THEN e ELSE 0

\* re.sub(r'\[\d+\.\d+ second pause\]', '', s), from s[i] on
RECURSIVE re_sub_pause_markers(_, _)
re_sub_pause_markers(s, i) ==
    IF i > Len(s) THEN <<>>
    ELSE LET e == MatchPauseMarker(s, i)
         IN  IF e > 0 THEN re_sub_pause_markers(s, e + 1)
             ELSE <<s[i]>> \o re_sub_pause_markers(s, i + 1)

\* what was spoken: up to max_words words and the silence after each word
\* but the last
Spoken(max_words, word_texts, silences) ==
    UNION {[words : [1..n -> word_texts],
            gaps : [1..Max(n - 1, 0) -> silences]] : n \in 0..max_words}

\* the word timestamps the ASR reports for it, the first word starting at
\* t0 and every word lasting 0.3 s
TimedWords(spoken, t0) ==
    LET start[i \in 1..Len(spoken.words)] ==
            IF i = 1 THEN t0 ELSE start[i - 1] + 30 + spoken.gaps[i - 1]
    IN  [i \in 1..Len(spoken.words) |->
            [word |-> spoken.words[i], start |-> start[i],
             end |-> start[i] + 30]]

\* TranscriptionAnalyzer.transcribe, lines 35-60: one segment built from
\* response.words
TranscriptionAnalyzer_result(words) ==
    [text |-> Join([i \in 1..Len(words) |-> words[i].word]),
     segments |-> IF Len(words) > 0
                  THEN <<[start |-> words[1].start,
                          end |-> words[Len(words)].end,
                          words |-> words]>>
                  ELSE <<>>]

\* a result of the local Whisper model: segments laid out one after the
\* other, a segment without text has no words and no length; a word has a
\* leading blank
WhisperResult(shapes, silences) ==
    LET seg[i \in 1..Len(shapes)] ==
            LET start == IF i = 1 THEN 0
                         ELSE seg[i - 1].end + silences[i - 1]
                words == TimedWords(shapes[i], start)
            IN  [start |-> start,
                 end |-> IF Len(words) = 0 THEN start
                         ELSE words[Len(words)].end,
                 words |-> words]
    IN  [segments |-> [i \in 1..Len(shapes) |-> seg[i]]]

\* every word of every segment, in order
AllWords(result) ==
    LET flat[k \in 0..Len(result.segments)] ==
            IF k = 0 THEN <<>> ELSE flat[k - 1] \o result.segments[k].words
    IN  flat[Len(result.segments)]

\* TranscriptionAnalyzer._process_transcription on the characters of the
\* text
_process_transcription_text(result) ==
    LET all_words == AllWords(result)
        n == Len(all_words)
        time_gap(i) == all_words[i + 1].start - all_words[i].end
        IsPause(i) == i < n /\ time_gap(i) >= 100
        transcription_with_pauses[i \in 0..n] ==
            IF i = 0 THEN <<>>
            ELSE transcription_with_pauses[i - 1] \o <<all_words[i].word>>
                   \o (IF IsPause(i) THEN <<pause_marker(time_gap(i))>>
                       ELSE <<>>)
        total_pause_duration[i \in 0..n] ==
            IF i = 0 THEN 0
            ELSE total_pause_duration[i - 1]
                   + (IF IsPause(i) THEN RoundDiv(time_gap(i), 10) ELSE 0)
    IN  IF n = 0 THEN [text |-> result.text, total_pause_duration |-> 0]
        ELSE [text |-> NormalizeWhitespace(Join(transcription_with_pauses[n])),
              total_pause_duration |-> total_pause_duration[n]]

\* app/models/transcript.py: the words of each segment with the 1.0 s rule,
\* then the gap between the segment's end and the next segment's start with
\* the 2.0 s rule
process_transcription(result) ==
    LET segs == result.segments
        SegmentPieces(i) ==
            LET words_in_segment == segs[i].words
                m == Len(words_in_segment)
                word_gap(j) == words_in_segment[j + 1].start
                                 - words_in_segment[j].end
                in_segment[j \in 0..m] ==
                    IF j = 0 THEN <<>>
                    ELSE in_segment[j - 1] \o <<words_in_segment[j].word>>
                           \o (IF j < m /\ word_gap(j) >= 100
                               THEN <<pause_marker(word_gap(j))>> ELSE <<>>)
                segment_gap == segs[i + 1].start - segs[i].end
            IN  in_segment[m]
                  \o (IF i < Len(segs) /\ segment_gap >= 200
                      THEN <<pause_marker(segment_gap)>> ELSE <<>>)
        pieces[i \in 0..Len(segs)] ==
            IF i = 0 THEN <<>> ELSE pieces[i - 1] \o SegmentPieces(i)
        transcription_with_pauses == pieces[Len(segs)]
    IN  [text |-> NormalizeWhitespace(Join(transcription_with_pauses)),
         number_of_pauses |->
             Cardinality({k \in 1..Len(transcription_with_pauses) :
                             transcription_with_pauses[k][1] = "["})]

\* s.endswith('.') without the strip()
EndsWithPeriod_unstripped(s) == Len(s) > 0 /\ s[Len(s)] = "."

\* s.strip().endswith('.')
EndsWithPeriod(s) ==
    \E j \in 1..Len(s) : s[j] = "." /\ \A k \in (j + 1)..Len(s) : s[k] = " "

\* FillerWordAnalyzer._analyze_mid_sentence_pauses, lines 103-138, and
\* analyze_mid_sentence_pauses of app/models/filler_word_detection.py: the
\* text is split at '[', re.match of \[([\d.]+) second pause\] is tried on
\* every piece but the first, float() of the group is the duration (the
\* markers of both normalizers have one digit after the point)
analyze_mid_sentence_pauses(transcription) ==
    LET segments_ == SplitOn(transcription, "[")
        Piece(i) == <<"[">> \o segments_[i]
        GroupEnd(i) ==
            RunEnd(Piece(i), 2, {DecimalDigits[k] : k \in 1..10} \cup {"."})
        Matches(i) ==
            /\ GroupEnd(i) >= 2
            /\ GroupEnd(i) + Len(SecondPause) <= Len(Piece(i))
            /\ SubSeq(Piece(i), GroupEnd(i) + 1,
                      GroupEnd(i) + Len(SecondPause)) = SecondPause
        pause_duration(i) ==
            LET parts == SplitOn(SubSeq(Piece(i), 2, GroupEnd(i)), ".")
            IN  10 * DecimalValue(parts[1]) + DecimalValue(parts[2])
        Counted(lo, hi) ==
            Cardinality({i \in 2..Len(segments_) :
                            /\ Matches(i)
                            /\ ~EndsWithPeriod(segments_[i - 1])
                            /\ lo <= pause_duration(i)
                            /\ pause_duration(i) <= hi})
    IN  [under_1_5 |-> Counted(0, 14),
         between_1_5_3 |-> Counted(15, 30),
         exceeding_3 |-> Counted(31, 50),
         exceeding_5 |-> Counted(51, 1000000)]

TextIdle ==
    /\ tpc = "idle"
    /\ normalizer = None
    /\ asr_result = None
    /\ transcript = <<>>
    /\ clean_text = <<>>
    /\ pause_categories = None

\* TranscriptionAnalyzer.transcribe on the word timestamps of the OpenAI API
ApiTranscribe ==
    /\ tpc = "idle"
    /\ \E spoken \in Spoken(MaxTimedWords,
                            {<<"h", "i">>, <<"h", "i", ".">>},
                            {40, 100, 149, 304, 500, 1250}) :
         LET result == TranscriptionAnalyzer_result(TimedWords(spoken, 0))
         IN  /\ asr_result' = result
             /\ transcript' = _process_transcription_text(result).text
    /\ normalizer' = "TranscriptionAnalyzer"
    /\ tpc' = "transcribed"
    /\ UNCHANGED <<clean_text, pause_categories>>
    /\ UNCHANGED <<scoreVars, aggVars, pipeVars, gatherVars, durVars,
                   voiceVars, apiVars, runVars>>

\* transcribe_audio followed by process_transcription
WhisperTranscribe ==
    /\ tpc = "idle"
    /\ \E n \in 1..MaxSegments :
         \E shapes \in [1..n -> Spoken(MaxSegmentWords, {<<" ", "h", "i">>},
                                       {40, 100})],
            silences \in [1..(n - 1) -> {150, 230}] :
           LET result == WhisperResult(shapes, silences)
           IN  /\ asr_result' = result
               /\ transcript' = process_transcription(result).text
    /\ normalizer' = "process_transcription"
    /\ tpc' = "transcribed"
    /\ UNCHANGED <<clean_text, pause_categories>>
    /\ UNCHANGED <<scoreVars, aggVars, pipeVars, gatherVars, durVars,
                   voiceVars, apiVars, runVars>>

\* GrammarAnalyzer.analyze, line 31; _preprocess_text of
\* TopicRelevanceAnalyzer, line 100, substitutes the same pattern
StripPauses ==
    /\ tpc = "transcribed"
    /\ clean_text' = re_sub_pause_markers(transcript, 1)
    /\ tpc' = "cleaned"
    /\ UNCHANGED <<normalizer, asr_result, transcript, pause_categories>>
    /\ UNCHANGED <<scoreVars, aggVars, pipeVars, gatherVars, durVars,
                   voiceVars, apiVars, runVars>>

AnalyzeMidSentencePauses ==
    /\ tpc = "cleaned"
    /\ pause_categories' = analyze_mid_sentence_pauses(transcript)
    /\ tpc' = "analysed"
    /\ UNCHANGED <<normalizer, asr_result, transcript, clean_text>>
    /\ UNCHANGED <<scoreVars, aggVars, pipeVars, gatherVars, durVars,
                   voiceVars, apiVars, runVars>>

NextRecording ==
    /\ tpc = "analysed"
    /\ tpc' = "idle"
    /\ normalizer' = None
    /\ asr_result' = None
    /\ transcript' = <<>>
    /\ clean_text' = <<>>
    /\ pause_categories' = None
    /\ UNCHANGED <<scoreVars, aggVars, pipeVars, gatherVars, durVars,
                   voiceVars, apiVars, runVars>>

----------------------------------------------------------------------------
(* The endpoints of main.py: POST /api/v2/analyze, GET and DELETE           *)
(* /api/v2/analysis/{analysis_id}, with AudioProcessingService and          *)
(* StorageService. The n-th POST draws the upload's file name, the          *)
(* response's analysis_id (main.py:310) and the document id of              *)
(* save_analysis (storage_service.py:80) from three independent random      *)
(* sources: they are numbered n, each of its own kind.                      *)

Users == {"u1", "u2"}

\* f"analysis_{uuid4().hex[:12]}", main.py:310
ResponseId(n) == [kind |-> "analysis_hex12", n |-> n]

\* str(uuid.uuid4()), storage_service.py:80
DocumentId(n) == [kind |-> "uuid4", n |-> n]

NoApiRequest == [endpoint |-> "none"]

NoApiResponse == [status |-> 0, analysis_id |-> None]

ApiIdle ==
    /\ apc = "idle"
    /\ api_request = NoApiRequest
    /\ posts = 0
    /\ upload_dir = {}
    /\ background_tasks = {}
    /\ firestore = {}
    /\ api_response = NoApiResponse
    /\ issued = {}

\* an exception leaves the try block of a handler; its except clauses turn
\* an AudioProcessingError into 422 and everything else, an HTTPException
\* raised inside the try included, into 500
ApiRaise(exc) ==
    /\ apc' = "responded"
    /\ api_response' = [status |-> IF exc = "AudioProcessingError"
                                   THEN 422 ELSE 500,
                        analysis_id |-> None]

\* a client posts a recording
PostAnalyze ==
    /\ apc = "idle"
    /\ posts < MaxPosts
    /\ posts' = posts + 1
    /\ api_request' \in [endpoint : {"analyze"},
                         user_id : Users,
                         filename : {"none", "speech.txt", "speech.wav"},
                         audio : {"too_large", "corrupted", "valid"},
                         analysis : {"raises", "returns"},
                         storage : {"raises", "stores"}]
    /\ apc' = "validate"
    /\ UNCHANGED <<upload_dir, background_tasks, firestore, api_response,
                   issued>>
    /\ UNCHANGED <<scoreVars, aggVars, pipeVars, gatherVars, durVars,
                   voiceVars, textVars, runVars>>

\* main.py:277-286: both HTTPException(400) are raised inside the try
ValidateUpload ==
    /\ apc = "validate"
    /\ IF api_request.filename = "speech.wav"
       THEN apc' = "save_upload" /\ UNCHANGED api_response
       ELSE ApiRaise("HTTPException 400")
    /\ UNCHANGED <<api_request, posts, upload_dir, background_tasks,
                   firestore, issued>>
    /\ UNCHANGED <<scoreVars, aggVars, pipeVars, gatherVars, durVars,
                   voiceVars, textVars, runVars>>

\* audio_service.save_upload: the size is checked before the file is
\* written, the audio is validated after
save_upload ==
    /\ apc = "save_upload"
    /\ IF api_request.audio = "too_large"
       THEN UNCHANGED upload_dir /\ ApiRaise("AudioProcessingError")
       ELSE /\ upload_dir' = upload_dir \cup {posts}
            /\ IF api_request.audio = "corrupted"
               THEN ApiRaise("AudioProcessingError")
               ELSE apc' = "analyze" /\ UNCHANGED api_response
    /\ UNCHANGED <<api_request, posts, background_tasks, firestore, issued>>
    /\ UNCHANGED <<scoreVars, aggVars, pipeVars, gatherVars, durVars,
                   voiceVars, textVars, runVars>>

\* main.py:297-321: speech_service.analyze, then build_response with a
\* fresh analysis_id
AnalyzeUpload ==
    /\ apc = "analyze"
    /\ IF api_request.analysis = "returns"
       THEN /\ apc' = "save_analysis"
            /\ api_response' = [status |-> 0,
                                analysis_id |-> ResponseId(posts)]
       ELSE ApiRaise("AnalysisError")
    /\ UNCHANGED <<api_request, posts, upload_dir, background_tasks,
                   firestore, issued>>
    /\ UNCHANGED <<scoreVars, aggVars, pipeVars, gatherVars, durVars,
                   voiceVars, textVars, runVars>>

\* storage_service.save_analysis: the document is stored under an id of
\* its own, which analyze_speech does not read
save_analysis ==
    /\ apc = "save_analysis"
    /\ IF api_request.storage = "stores"
       THEN /\ firestore' = firestore
                  \cup {[analysis_id |-> DocumentId(posts),
                         user_id |-> api_request.user_id]}
            /\ apc' = "return"
            /\ UNCHANGED api_response
       ELSE UNCHANGED firestore /\ ApiRaise("StorageError")
    /\ UNCHANGED <<api_request, posts, upload_dir, background_tasks, issued>>
    /\ UNCHANGED <<scoreVars, aggVars, pipeVars, gatherVars, durVars,
                   voiceVars, textVars, runVars>>

\* main.py:330-335: the cleanup is scheduled and the response returned
ReturnAnalysis ==
    /\ apc = "return"
    /\ background_tasks' = background_tasks \cup {posts}
    /\ api_response' = [api_response EXCEPT !.status = 200]
    /\ issued' = issued \cup {[analysis_id |-> api_response.analysis_id,
                               user_id |-> api_request.user_id]}
    /\ apc' = "responded"
    /\ UNCHANGED <<api_request, posts, upload_dir, firestore>>
    /\ UNCHANGED <<scoreVars, aggVars, pipeVars, gatherVars, durVars,
                   voiceVars, textVars, runVars>>

\* audio_service.cleanup_file, run once the response is sent
cleanup_file ==
    /\ \E f \in background_tasks \cap upload_dir :
         upload_dir' = upload_dir \ {f}
    /\ UNCHANGED <<apc, api_request, posts, background_tasks, firestore,
                   api_response, issued>>
    /\ UNCHANGED <<scoreVars, aggVars, pipeVars, gatherVars, durVars,
                   voiceVars, textVars, runVars>>

\* the ids a client may ask for: those the POSTs returned, those of the
\* stored documents (listed by the history endpoint) and one never issued
KnownIds ==
    {ResponseId(n) : n \in 1..MaxPosts} \cup {DocumentId(n) : n \in 1..MaxPosts}
      \cup {ResponseId(0)}

\* storage_service.get_analysis / delete_analysis up to the access check:
\* None or False without a document, StorageError for another user's
Lookup(analysis_id, user_id) ==
    IF \A doc \in firestore : doc.analysis_id # analysis_id THEN "absent"
    ELSE IF [analysis_id |-> analysis_id, user_id |-> user_id] \in firestore
    THEN "found"
    ELSE "StorageError"

\* GET /api/v2/analysis/{analysis_id}, main.py:347-362: the
\* HTTPException(404) is raised inside the try
get_analysis ==
    /\ apc = "idle"
    /\ \E id \in KnownIds, u \in Users :
         /\ api_request' = [endpoint |-> "get", analysis_id |-> id,
                            user_id |-> u]
         /\ IF Lookup(id, u) = "found"
            THEN /\ api_response' = [status |-> 200, analysis_id |-> id]
                 /\ apc' = "responded"
            ELSE IF Lookup(id, u) = "absent"
            THEN ApiRaise("HTTPException 404")
            ELSE ApiRaise("StorageError")
    /\ UNCHANGED <<posts, upload_dir, background_tasks, firestore, issued>>
    /\ UNCHANGED <<scoreVars, aggVars, pipeVars, gatherVars, durVars,
                   voiceVars, textVars, runVars>>

\* DELETE /api/v2/analysis/{analysis_id}, main.py:386-401
delete_analysis ==
    /\ apc = "idle"
    /\ \E id \in KnownIds, u \in Users :
         /\ api_request' = [endpoint |-> "delete", analysis_id |-> id,
                            user_id |-> u]
         /\ IF Lookup(id, u) = "found"
            THEN /\ firestore' = firestore
                       \ {[analysis_id |-> id, user_id |-> u]}
                 /\ api_response' = [status |-> 200, analysis_id |-> id]
                 /\ apc' = "responded"
            ELSE /\ UNCHANGED firestore
                 /\ IF Lookup(id, u) = "absent"
                    THEN ApiRaise("HTTPException 404")
                    ELSE ApiRaise("StorageError")
    /\ UNCHANGED <<posts, upload_dir, background_tasks, issued>>
    /\ UNCHANGED <<scoreVars, aggVars, pipeVars, gatherVars, durVars,
                   voiceVars, textVars, runVars>>

\* the response is sent, the next request may come
SendResponse ==
    /\ apc = "responded"
    /\ apc' = "idle"
    /\ api_request' = NoApiRequest
    /\ api_response' = NoApiResponse
    /\ UNCHANGED <<posts, upload_dir, background_tasks, firestore, issued>>
    /\ UNCHANGED <<scoreVars, aggVars, pipeVars, gatherVars, durVars,
                   voiceVars, textVars, runVars>>

----------------------------------------------------------------------------
(* PronunciationAnalyzer.analyze and the scores of                          *)
(* SpeechAnalysisService.analyze, run repeatedly on one recording.          *)
(* mfcc_variability is kept in tenths, speech_rate in hundredths of a word  *)
(* per second, a value of np.random.random() in hundredths, a phoneme       *)
(* score in ten-thousandths.                                                *)

\* pronunciation_analyzer.py, lines 8-14: the keys of challenging_phonemes
challenging_phonemes == <<"th", "r", "l", "v", "w">>

\* values of np.random.random(), which lies in [0.0, 1.0)
RandomDraws == {0, 50, 99}

RECURSIVE SumOver(_, _)
SumOver(f, keys) ==
    IF keys = {} THEN 0
    ELSE LET k == CHOOSE x \in keys : TRUE
         IN  f[k] + SumOver(f, keys \ {k})

\* the recordings analyze is run on: what librosa measures on the audio,
\* the challenging phonemes the transcript's words match, whether Whisper
\* returned word entries, the request's analysis_depth, and the level of
\* the scores of the other analyzers, which depend on the recording only
Recordings ==
    [loadable : BOOLEAN,
     mfcc_variability : {5, 45},
     speech_rate : {150, 300},
     matched : SUBSET {challenging_phonemes[i] : i \in 1..MaxPhonemes},
     word_timestamps : BOOLEAN,
     depth : {"quick", "standard"},
     level : 0..MaxLevel]

NoRecording == [depth |-> "none"]

\* lines 28-104: clarity_score of one run; draws[p] is the value
\* np.random.random() returns for the phoneme p at line 69
PronunciationAnalyzer_analyze(rec, draws) ==
    LET scored == IF rec.word_timestamps THEN rec.matched ELSE {}
        phoneme_scores == [p \in scored |-> 8000 + 20 * draws[p]]
        base == 60 + rec.mfcc_variability
                + (IF rec.speech_rate > 200 /\ rec.speech_rate < 500
                   THEN 20 ELSE 0)
        \* int(base + 10 * (sum / len)), 10 for no scored phoneme
        clarity_score ==
            IF scored = {} THEN base + 10
            ELSE (base * 1000 * Cardinality(scored)
                    + SumOver(phoneme_scores, scored))
                   \div (1000 * Cardinality(scored))
    IN  IF ~rec.loadable THEN 50
        ELSE Min(100, Max(0, clarity_score))

\* speech_service.py: pronunciation is analysed for the depths standard and
\* advanced (lines 158-165), with self.whisper_model (lines 288-298); the
\* scores go through _calculate_overall_scores; scores in tenths
SpeechAnalysisService_analyze(rec, draws) ==
    LET pronunciation ==
            IF rec.depth \in {"standard", "advanced"}
            THEN 10 * PronunciationAnalyzer_analyze(rec, draws)
            ELSE Missing
        a == [c \in Components |->
                 IF c = "pronunciation" THEN pronunciation
                 ELSE NativeScale[c].min
                        + (rec.level * (NativeScale[c].max
                                          - NativeScale[c].min))
                            \div MaxLevel]
        scores == _calculate_overall_scores(a)
    IN  [pronunciation_score |-> scores.normalized["pronunciation"],
         overall_score |-> scores.overall]

NoException == [exception |-> "none", key |-> "none"]

RunIdle ==
    /\ recording = NoRecording
    /\ runs = <<>>
    /\ spc = "idle"
    /\ transcription_result = NoResult
    /\ raised = NoException

\* a recording is uploaded with a request
ReceiveRecording ==
    /\ recording = NoRecording
    /\ recording' \in Recordings
    /\ UNCHANGED <<runs, spc, transcription_result, raised>>
    /\ UNCHANGED <<scoreVars, aggVars, pipeVars, gatherVars, durVars,
                   voiceVars, textVars, apiVars>>

\* one run of analyze on the recording
AnalyzeRecording ==
    /\ recording # NoRecording
    /\ Len(runs) < MaxRuns
    /\ \E draws \in [recording.matched -> RandomDraws] :
         runs' = Append(runs, SpeechAnalysisService_analyze(recording, draws))
    /\ UNCHANGED <<recording, spc, transcription_result, raised>>
    /\ UNCHANGED <<scoreVars, aggVars, pipeVars, gatherVars, durVars,
                   voiceVars, textVars, apiVars>>

\* the next recording
NextUpload ==
    /\ Len(runs) = MaxRuns
    /\ recording' = NoRecording
    /\ runs' = <<>>
    /\ UNCHANGED <<spc, transcription_result, raised>>
    /\ UNCHANGED <<scoreVars, aggVars, pipeVars, gatherVars, durVars,
                   voiceVars, textVars, apiVars>>

----------------------------------------------------------------------------
(* SpeechAnalyzerService.analyze_speech, lines 63-70 and 125-127, with      *)
(* TranscriptionEngine.transcribe; lines 72-123 are the steps from          *)
(* CreateTasks on                                                            *)

\* what whisper's model.transcribe returns: the text (filler words and
\* other words), the segments and the language
ModelTranscriptions ==
    [text : [fillers : 0..MaxSpokenFillers, others : 0..MaxPlainWords],
     segments : {<<>>},
     language : {"en"}]

\* transcription_engine.py, lines 30-41
TranscriptionEngine_transcribe(result) ==
    [text |-> result.text,
     duration |-> IF "duration" \in DOMAIN result THEN result.duration ELSE 0,
     word_count |-> result.text.fillers + result.text.others,
     raw_result |-> result]

\* the keys analyze_speech reads from the transcription result, lines 68-70
TranscriptionKeys == <<"text", "text_with_pauses", "raw_result">>

\* line 66: the engine returns its dict, or model.transcribe raises
EngineTranscribe ==
    /\ spc = "idle"
    /\ \E result \in ModelTranscriptions, raises \in BOOLEAN :
         IF raises
         THEN /\ spc' = "raised"
              /\ raised' = [exception |-> "RuntimeError", key |-> "none"]
              /\ UNCHANGED transcription_result
         ELSE /\ spc' = "transcribed"
              /\ transcription_result' = TranscriptionEngine_transcribe(result)
              /\ UNCHANGED raised
    /\ UNCHANGED <<recording, runs>>
    /\ UNCHANGED <<scoreVars, aggVars, pipeVars, gatherVars, durVars,
                   voiceVars, textVars, apiVars>>

\* lines 68-70: three subscriptions of the dict, KeyError for a key it does
\* not have; lines 125-127 log the exception and re-raise it
ReadTranscription ==
    /\ spc = "transcribed"
    /\ LET missing == {i \in DOMAIN TranscriptionKeys :
                         TranscriptionKeys[i] \notin
                             DOMAIN transcription_result}
       IN  IF missing = {}
           THEN spc' = "analyses" /\ UNCHANGED raised
           ELSE /\ spc' = "raised"
                /\ raised' =
                     [exception |-> "KeyError",
                      key |-> TranscriptionKeys[
                                  CHOOSE i \in missing :
                                      \A j \in missing : i <= j]]
    /\ UNCHANGED <<recording, runs, transcription_result>>
    /\ UNCHANGED <<scoreVars, aggVars, pipeVars, gatherVars, durVars,
                   voiceVars, textVars, apiVars>>

\* the call is over: the exception went to the caller, or the analyses
\* of lines 72-123 took over
EndCall ==
    /\ spc \in {"raised", "analyses"}
    /\ spc' = "idle"
    /\ transcription_result' = NoResult
    /\ raised' = NoException
    /\ UNCHANGED <<recording, runs>>
    /\ UNCHANGED <<scoreVars, aggVars, pipeVars, gatherVars, durVars,
                   voiceVars, textVars, apiVars>>

----------------------------------------------------------------------------
(* Specifications *)

InitScore ==
    /\ ScoreIdle
    /\ pause_marks \in PauseMarks
    /\ AggIdle
    /\ PipeIdle
    /\ GatherIdle
    /\ DurIdle
    /\ VoiceIdle
    /\ TextIdle
    /\ ApiIdle
    /\ RunIdle

NextScore ==
    \/ Transcribe(ShortTranscripts)
    \/ AnalyzeFillerWords
    \/ AnalyzeProficiency
    \/ FinishRequest

SpecScore == InitScore /\ [][NextScore]_vars

\* long transcripts, the pause markers held fixed over the requests
NextLong ==
    \* long transcripts, in bursts of fillers and blocks of other words
    \/ Transcribe([fillers : [1..LongMinutes ->
                                  {FillerBurst * j : j \in 0..MaxBursts}],
                   others : {WordBlock * k : k \in 0..MaxBlocks}])
    \/ AnalyzeFillerWords
    \/ AnalyzeProficiency
    \/ NextRequest

SpecLong == InitScore /\ [][NextLong]_vars

\* the aggregation of analyzer results
InitAgg ==
    /\ AggIdle
    /\ ScoreIdle
    /\ pause_marks = [under_1_5 |-> 0, between_1_5_3 |-> 0,
                      exceeding_3 |-> 0, exceeding_5 |-> 0]
    /\ PipeIdle
    /\ GatherIdle
    /\ DurIdle
    /\ VoiceIdle
    /\ TextIdle
    /\ ApiIdle
    /\ RunIdle

NextAgg ==
    \/ AnalyzersReturn
    \/ CalculateOverallScores
    \/ BuildResponse
    \/ ReturnResponse

SpecAgg == InitAgg /\ [][NextAgg]_vars

\* the request handler of POST /api/v2/analyze
InitPipe ==
    /\ PipeIdle
    /\ ScoreIdle
    /\ pause_marks = [under_1_5 |-> 0, between_1_5_3 |-> 0,
                      exceeding_3 |-> 0, exceeding_5 |-> 0]
    /\ AggIdle
    /\ GatherIdle
    /\ DurIdle
    /\ VoiceIdle
    /\ TextIdle
    /\ ApiIdle
    /\ RunIdle

NextPipe ==
    \/ ReceiveRequest
    \/ ValidateFile
    \/ SaveUpload
    \/ StepTranscribe
    \/ StepFillerWords
    \/ StepProficiency
    \/ StepVoice
    \/ StepGrammar
    \/ StepStructure
    \/ StepPronunciation
    \/ StepTopicRelevance
    \/ StepEmphasis
    \/ CompileResult
    \/ BuildHttpResponse
    \/ SaveAnalysis
    \/ ReturnHttpResponse
    \/ CloseRequest

SpecPipe == InitPipe /\ [][NextPipe]_vars

\* analyze_speech from line 72 on
NextGather ==
    \/ CreateTasks
    \/ LaunchTasks
    \/ \E t \in GatherTasks : TaskEnds(t)
    \/ GatherReturns
    \/ GatherRaises
    \/ Evaluate
    \/ AggregateResults
    \/ NextCall

SpecGather == InitPipe /\ [][NextGather]_vars

\* repeated runs of SpeechAnalysisService.analyze on one recording
NextRepeat ==
    \/ ReceiveRecording
    \/ AnalyzeRecording
    \/ NextUpload

SpecRepeat == InitPipe /\ [][NextRepeat]_vars

\* analyze_speech up to line 70
NextTranscribe ==
    \/ EngineTranscribe
    \/ ReadTranscription
    \/ EndCall

SpecTranscribe == InitPipe /\ [][NextTranscribe]_vars

\* a coroutine that is awaited runs on: the steps of the call are taken
SpecTranscribeFair ==
    SpecTranscribe /\ WF_vars(ReadTranscription) /\ WF_vars(EndCall)

\* VoiceModulationAnalyzer.analyze on longer recordings
NextEmphasis ==
    \/ MeasureLongRecording
    \/ ScorePitchAndVolume
    \/ ScoreEmphasis
    \/ ReturnVoiceAnalysis

SpecEmphasis == InitPipe /\ [][NextEmphasis]_vars

\* the endpoints: requests are handled one at a time, the background tasks
\* run beside them
NextApi ==
    \/ PostAnalyze
    \/ ValidateUpload
    \/ save_upload
    \/ AnalyzeUpload
    \/ save_analysis
    \/ ReturnAnalysis
    \/ cleanup_file
    \/ get_analysis
    \/ delete_analysis
    \/ SendResponse

SpecApi == InitPipe /\ [][NextApi]_vars

\* the event loop runs every handler to its response and every scheduled
\* background task; no client is obliged to send a request
SpecApiFair ==
    /\ SpecApi
    /\ WF_vars(ValidateUpload \/ save_upload \/ AnalyzeUpload \/ save_analysis
                  \/ ReturnAnalysis \/ SendResponse)
    /\ WF_vars(cleanup_file)

\* pause markers: from the word timestamps to the text re-analyzers
NextText ==
    \/ ApiTranscribe
    \/ WhisperTranscribe
    \/ StripPauses
    \/ AnalyzeMidSentencePauses
    \/ NextRecording

SpecText == InitPipe /\ [][NextText]_vars

\* _get_duration_adjusted_thresholds over the expected-duration arguments
NextDur ==
    \/ AdjustThresholds
    \/ ReturnToCaller

SpecDur == InitPipe /\ [][NextDur]_vars

\* calculate over expected durations, filler counts and pause counts
NextEval ==
    \/ CalculateProficiency
    \/ ReturnToCaller

SpecEval == InitPipe /\ [][NextEval]_vars

\* FillerWordAnalyzer.analyze over short transcripts, without pause markers
NextFiller ==
    \/ Transcribe(ShortTranscripts)
    \/ AnalyzeFillerWords
    \/ ReturnFillerAnalysis

SpecFiller == InitPipe /\ [][NextFiller]_vars

\* VoiceModulationAnalyzer.analyze over the measurements of a recording
NextVoice ==
    \/ MeasureRecording
    \/ ScorePitchAndVolume
    \/ ScoreEmphasis
    \/ ReturnVoiceAnalysis

SpecVoice == InitPipe /\ [][NextVoice]_vars

----------------------------------------------------------------------------
(* Properties of the filler / proficiency scoring *)

\* the transcript's filler density total_filler_words / total_words is at
\* least 0.15
DensityAtLeast15(seg) ==
    /\ TotalWords(seg) > 0
    /\ 100 * SumSeq(seg.fillers) >= 15 * TotalWords(seg)

\* C1: with the pause analysis held fixed, final_score is non-increasing in
\* 'Filler Density': of two analysed requests, the one with the smaller (or
\* equal) density has the larger (or equal) final_score.
C1_FinalScoreMonotoneInDensity ==
    (step = "done" /\ prev.seen) =>
        /\ (prev.filler_density <= proficiency_analysis.filler_density
              => prev.final_score >= proficiency_analysis.final_score)
        /\ (proficiency_analysis.filler_density <= prev.filler_density
              => proficiency_analysis.final_score >= prev.final_score)

\* C2: whenever the filler density of the transcript is >= 0.15 (0.15
\* included), the filler_score of ProficiencyCalculator is 0 and the filler
\* term filler_score * 0.6 * 2 of final_score is 0, whatever the pauses and
\* the per-minute counts are.
C2_DensityAtLeast15GivesFillerScoreZero ==
    (step = "done" /\ DensityAtLeast15(segments)) =>
        /\ proficiency_analysis.filler_score = 0
        /\ proficiency_analysis.final_score
             = 8 * _evaluate_pauses(filler_analysis.mid_sentence_pauses,
                                    DefaultDuration)

----------------------------------------------------------------------------
(* Properties of the aggregation *)

Aggregated == aggStep \in {"compiled", "responded"}

\* the analyzers that always run returned a score, as they do in the pipeline
\* (pronunciation, emphasis and topic relevance may not have run)
AnalyzerProducible ==
    \A c \in {"filler_words", "proficiency", "voice_modulation", "grammar",
              "vocabulary", "structure"} : analyses[c] # Missing

\* C3: every component is rescaled to 0-100 by its own native scale: filler
\* Score 10, proficiency final_score 20, voice total_score 20 and grammar 50
\* normalize to 100, and the components already on 0-100 are unchanged.
C3_NativeMaximumNormalizesTo100 ==
    (Aggregated /\ AnalyzerProducible) =>
        /\ (analyses["filler_words"] = 100
              => overall_scores.normalized["filler_words"] = 1000)
        /\ (analyses["proficiency"] = 200
              => overall_scores.normalized["proficiency"] = 1000)
        /\ (analyses["voice_modulation"] = 200
              => overall_scores.normalized["voice_modulation"] = 1000)
        /\ (analyses["grammar"] = 500
              => overall_scores.normalized["grammar"] = 1000)
        /\ \A c \in {"structure", "pronunciation", "emphasis",
                     "topic_relevance"} :
              analyses[c] # Missing
                => overall_scores.normalized[c] = analyses[c]

\* C4: the overall_score of the response of POST /api/v2/analyze is within
\* [0,100] for every combination of scores the analyzers can produce.
C4_ResponseOverallScoreWithin0And100 ==
    (aggStep = "responded" /\ AnalyzerProducible) =>
        /\ response.overall_score >= 0
        /\ response.overall_score <= 1000

\* the sum of a weight table
RECURSIVE WeightTotal(_, _)
WeightTotal(weights, keys) ==
    IF keys = {} THEN 0
    ELSE LET k == CHOOSE x \in keys : TRUE
         IN  weights[k] + WeightTotal(weights, keys \ {k})

\* C19: the weight table of _calculate_overall_scores sums to 1.0, over the
\* 8 components without topic relevance and over the 9 with it (the 8
\* weights times 0.9, and 0.10 for topic relevance), and the overall score
\* is within [0,100]
C19_WeightsSumToOneAndOverallWithin0And100 ==
    Aggregated =>
        LET scores == ComponentScores(analyses)
            weights == Weights(scores)
        IN  /\ WeightTotal(weights, DOMAIN weights) = 10000
            /\ DOMAIN weights =
                  IF analyses["topic_relevance"] = Missing
                  THEN Components \ {"topic_relevance"}
                  ELSE Components
            /\ overall_scores.overall >= 0
            /\ overall_scores.overall <= 1000

\* every analyzer, topic relevance included, returned its highest score
C19_Witness ==
    /\ Aggregated
    /\ \A c \in Components : analyses[c] = NativeScale[c].max
    /\ overall_scores.overall > 900

\* C9: every reported strength is a component with a normalized score >= 75
\* and every suggestion is for a component with a normalized score < 60.
C9_StrengthsAtLeast75WeaknessesBelow60 ==
    (Aggregated /\ AnalyzerProducible) =>
        /\ \A i \in DOMAIN top_strengths :
              overall_scores.normalized[top_strengths[i]] >= 750
        /\ \A i \in DOMAIN suggestions :
              overall_scores.normalized[suggestions[i]] < 600

\* C10: a component whose analyzer result lacks its score gets the neutral
\* default 50 on the 0-100 scale, filler words 70 (topic relevance is left
\* out of the scores when it has no result, and is not constrained here).
C10_MissingScoreDefaultsTo50Or70 ==
    Aggregated =>
        \A c \in Components \ {"topic_relevance"} :
            analyses[c] = Missing =>
                overall_scores.normalized[c]
                    = (IF c = "filler_words" THEN 700 ELSE 500)

----------------------------------------------------------------------------
(* Properties of the request handler *)

\* C5: every text-level re-analyzer the pipeline has run (grammar, structure,
\* topic relevance) removed all pause markers first: the text it tokenizes,
\* counts or scores holds no pause marker
C5_TextAnalyzersStripPauseMarkers ==
    \A a \in TextAnalyzers :
        results[a] # "absent"
            => \A i \in 1..Len(tokenized[a]) : tokenized[a][i].kind # "pause"

\* C6: when an exception was raised inside an analyzer (and storage did not
\* fail), the request still ends with a result that carries the scores, and
\* every analyzer of the request was run
C6_AnalyzerExceptionNeverAbortsPipeline ==
    (/\ pc = "responded"
     /\ \E a \in Analyzers : results[a] \in {"raised", "fallback"}
     /\ saved # "failed")
        => /\ http.status = 200
           /\ http.scores
           /\ \A a \in EnabledAnalyzers(request) : results[a] # "absent"

\* C8: when the audio file cannot be opened or the ASR raises, the request
\* ends with an error response without scores, and save_analysis is never
\* called for it
C8_TranscriptionFailureIsFatal ==
    results["transcription"] \in {"open_failed", "asr_raised"}
        => /\ pc = "responded"
           /\ http.status >= 400
           /\ ~http.scores
           /\ saved = "not_called"
           /\ \A a \in Analyzers : results[a] = "absent"

\* a request whose audio file could not be opened has been answered
C8_Witness ==
    /\ pc = "responded"
    /\ results["transcription"] = "open_failed"
    /\ request.filename_ok /\ request.upload_ok
    /\ http = [status |-> 500, scores |-> FALSE]
    /\ saved = "not_called"

----------------------------------------------------------------------------
(* Properties of VoiceModulationAnalyzer's scores *)

InScoreRange(score) == 50 <= score /\ score <= 100

C22_CompensationNonIncreasingAndCappedAt10 ==
    vpc = "scored"
        => LET q == voice_features.quality_factor
               compensation == _calculate_quality_compensation(q)
           IN  /\ compensation = (IF q < 50 THEN 20 ELSE IF q < 70 THEN 15
                                  ELSE IF q < 90 THEN 10 ELSE 0)
               /\ \A x \in 0..100 :
                     /\ x <= q => _calculate_quality_compensation(x)
                                    >= compensation
                     /\ x >= q => _calculate_quality_compensation(x)
                                    <= compensation
               /\ voice_scores.emphasis_score <= 100
               /\ voice_scores.pitch_and_volume_score <= 100
               /\ \/ voice_scores.emphasis_score = 100
                  \/ voice_scores.emphasis_score
                       = voice_scores.raw_emphasis_score + compensation
               /\ \/ voice_scores.pitch_and_volume_score = 100
                  \/ voice_scores.pitch_and_volume_score
                       = (voice_scores.pitch_score
                            + voice_scores.volume_score) \div 2 + compensation

\* an emphasis score of 9 on a recording of quality below 0.5 was raised to
\* 10, not to 11, and a mean pitch and volume score of 7.5 on it to 9.5
C22_Witness ==
    /\ vpc = "scored"
    /\ voice_features.quality_factor < 50
    /\ voice_scores.raw_emphasis_score = 90
    /\ voice_scores.emphasis_score = 100
    /\ voice_scores.pitch_score + voice_scores.volume_score = 150
    /\ voice_scores.pitch_and_volume_score = 95

\* C25: _calculate_emphasis_distribution counts each emphasis point in the
\* quarter of the recording that contains its frame, and
\* _calculate_emphasis_score takes the 2 points of the clustering penalty
\* exactly when more than 60% of the points lie in one quarter of the
\* recording: on a recording whose other deductions are known (an emphasis
\* ratio within 0.4-2.5 and a steady volume, 10 - 1 + 1 points) the score
\* is 8 with the penalty and 10 without it.
C25_ClusteringPenaltyByQuarterOfRecording ==
    (/\ vpc = "scored"
     /\ voice_features.emphasis_points # {}
     /\ Len(voice_features.intensity_values) = LongFrames)
        => LET points == voice_features.emphasis_points
               frames == Len(voice_features.intensity_values)
               in_quarter ==
                   [k \in 1..4 |->
                       Cardinality({f \in points :
                                       (4 * f) \div frames = k - 1})]
               clustered ==
                   \E k \in 1..4 :
                       10 * in_quarter[k] > 6 * Cardinality(points)
           IN  /\ _calculate_emphasis_distribution(points) = in_quarter
               /\ voice_scores.raw_emphasis_score
                     = (IF clustered THEN 80 ELSE 100)

----------------------------------------------------------------------------
(* Properties of FillerWordAnalyzer's score *)

\* C16: for every transcript whose filler density total_filler_words /
\* total_words is at least 0.15, _analyze_filler_words returns Score 0,
\* whatever the per-minute counts are: the per-minute penalties leave the
\* score at 0, neither above nor below it
C16_DensityAtLeast15GivesScoreZero ==
    (step \in {"filler_done", "done"} /\ DensityAtLeast15(segments))
        => LET perMinute == FillerWordsPerMinute(segments)
           IN  /\ filler_analysis.filler.Score = 0
               /\ MinutePenalties(0, perMinute, DOMAIN perMinute) = 0

\* a transcript of density exactly 0.15 with a penalized minute was scored 0
C16_Witness ==
    /\ step = "filler_done"
    /\ TotalWords(segments) > 0
    /\ 100 * SumSeq(segments.fillers) = 15 * TotalWords(segments)
    /\ \E m \in DOMAIN segments.fillers : segments.fillers[m] > 2
    /\ filler_analysis.filler.Score = 0

----------------------------------------------------------------------------
(* Properties of analyze_speech *)

\* C7: once evaluate has started, every launched analyzer has completed or
\* failed (none is running), and evaluate and _aggregate_results consumed
\* the result of every launched analyzer, never a partial set
C7_AggregationAfterAllAnalyzers ==
    evaluation.started
        => \A t \in GatherTasks :
              /\ tasks[t].status \in {"completed", "failed"}
              /\ evaluation.inputs[t] # NoResult
              /\ evaluation.inputs[t] = tasks[t].result

\* the aggregated result was returned after both analyzers completed
C7_Witness ==
    /\ gpc = "returned"
    /\ evaluation.started /\ evaluation.aggregated
    /\ \A t \in GatherTasks : tasks[t].status = "completed"
    /\ evaluation.inputs["content"].word_count > 0

----------------------------------------------------------------------------
(* Properties of ProficiencyCalculator's thresholds and evaluators *)

\* C11: the count thresholds applied when scoring are the 7-minute
\* thresholds scaled for the expected duration: with a low filler density, a
\* per-minute filler count above the scaled 'minimal' threshold is
\* penalized, and a count of short pauses above the scaled 'short' threshold
\* is penalized
C11_CountThresholdsScaleWithDuration ==
    durStep = "evaluated"
        => LET th == _get_duration_adjusted_thresholds(durArg)
               per == eval_input.filler.FillerWordsPerMinute
               pauses == eval_input.mid_sentence_pauses
           IN  /\ (/\ eval_input.filler.FillerDensity <= 50
                   /\ \E m \in DOMAIN per :
                          per[m] > th.filler_thresholds.minimal)
                      => eval_scores.filler_score < 100
               /\ pauses.under_1_5 > th.pause_thresholds.short
                      => eval_scores.pause_score < 100

\* C12: for a missing or malformed expected duration (None, empty, without
\* any number, or a range with nothing after the dash)
\* _get_duration_adjusted_thresholds raises nothing and returns exactly the
\* 7-minute defaults (fillers 2, 5, 8; pauses 5, 3, 2, 0)
C12_MalformedDurationGivesDefaults ==
    (/\ durStep = "adjusted"
     /\ \/ durArg.none
        \/ Len(durArg.str) = 0
        \/ \A i \in 1..Len(durArg.str) : durArg.str[i] \notin Digits
        \/ durArg.str[Len(durArg.str)] = "-")
        => /\ adjusted.raised = "none"
           /\ adjusted.filler_thresholds
                = [minimal |-> 2, low |-> 5, moderate |-> 8]
           /\ adjusted.pause_thresholds
                = [short |-> 5, medium |-> 3, long |-> 2, very_long |-> 0]

\* t is base * min(y / 7, 1) rounded to the nearest integer
NearestScaled(t, base, y) ==
    LET sevenths == base * (IF y >= 7 THEN 7 ELSE y)
        diff == 7 * t - sevenths
    IN  2 * diff <= 7 /\ 2 * diff >= -7

\* C20: for an expected duration "X-Y minutes" every returned threshold is
\* its 7-minute base value times scalingFactor = min(Y/7, 1), rounded to the
\* nearest integer: the base values themselves for Y >= 7, very_long always 0
C20_ThresholdsScaleByMaxMinutes ==
    durStep = "adjusted" /\ ~durArg.none
        => \A i \in 2..(Len(durArg.str) - 1), j \in 3..Len(durArg.str) :
              \* the string is "X-Y" or "X-Y m", Y ending at j
              (/\ i < j
               /\ durArg.str[i] = "-"
               /\ IsFloat(SubSeq(durArg.str, 1, i - 1))
               /\ IsFloat(SubSeq(durArg.str, i + 1, j))
               /\ SubSeq(durArg.str, j + 1, Len(durArg.str))
                     \in {<<>>, <<" ", "m">>})
                  => LET y == DecimalValue(SubSeq(durArg.str, i + 1, j))
                     IN
                     /\ adjusted.raised = "none"
                     /\ NearestScaled(adjusted.filler_thresholds.minimal, 2, y)
                     /\ NearestScaled(adjusted.filler_thresholds.low, 5, y)
                     /\ NearestScaled(adjusted.filler_thresholds.moderate, 8, y)
                     /\ NearestScaled(adjusted.pause_thresholds.short, 5, y)
                     /\ NearestScaled(adjusted.pause_thresholds.medium, 3, y)
                     /\ NearestScaled(adjusted.pause_thresholds.long, 2, y)
                     /\ adjusted.pause_thresholds.very_long = 0
                     /\ y >= 7 => adjusted = DefaultThresholds

\* the thresholds of "1-2 minutes": 2/7 of the base values, rounded
C20_Witness ==
    /\ durStep = "adjusted"
    /\ durArg = Str(<<"1", "-", "2", " ", "m">>)
    /\ adjusted.filler_thresholds = [minimal |-> 1, low |-> 1, moderate |-> 2]
    /\ adjusted.pause_thresholds
         = [short |-> 1, medium |-> 1, long |-> 1, very_long |-> 0]

\* C17: _evaluate_pauses returns 0 whenever a pause exceeding 5 seconds was
\* counted, whatever the other buckets hold; otherwise 10 minus 2, 3 and 4
\* for the three bucket limits and minus 5 for a total above 8, floored at 0
C17_PauseScoreRule ==
    durStep = "evaluated"
        => LET pa == eval_input.mid_sentence_pauses
               penalties ==
                   (IF pa.under_1_5 > 3 THEN 2 ELSE 0)
                   + (IF pa.between_1_5_3 > 2 THEN 3 ELSE 0)
                   + (IF pa.exceeding_3 > 1 THEN 4 ELSE 0)
                   + (IF pa.under_1_5 + pa.between_1_5_3 + pa.exceeding_3
                         + pa.exceeding_5 > 8 THEN 5 ELSE 0)
           IN  eval_scores.pause_score
                 = IF pa.exceeding_5 > 0 THEN 0
                   ELSE 10 * Max(0, 10 - penalties)

\* a pause of more than 5 seconds among otherwise few pauses
C17_Witness ==
    /\ durStep = "evaluated"
    /\ eval_input.mid_sentence_pauses
         = [under_1_5 |-> 1, between_1_5_3 |-> 0, exceeding_3 |-> 1,
            exceeding_5 |-> 1]
    /\ eval_scores.pause_score = 0

----------------------------------------------------------------------------
(* Properties of the analyzers' fallback results *)

\* C13: an analyzer that failed internally returns its mid-range fallback
\* score (50 of 100, 25 of 50, 10 of 20; in tenths) together with a
\* non-empty feedback list that holds an explicit "unable to ... analyze"
\* message
C13_FallbackHasScoreAndUnableMessage ==
    \A a \in Analyzers \ {"filler_words", "proficiency"} :
        results[a] = "fallback"
            => LET r == AnalyzerFallback(a)
                   mid ==
                       CASE a = "voice_modulation" -> [total_score |-> 100]
                         [] a = "grammar" -> [grammar_score |-> 250,
                                              word_selection_score |-> 250]
                         [] a = "structure" -> [structure_score |-> 500]
                         [] a = "pronunciation" ->
                                [pronunciation_score |-> 500]
                         [] a = "topic_relevance" ->
                                [topic_relevance_score |-> 500]
                         [] a = "emphasis" -> [emphasis_score |-> 500]
                   unable ==
                       {"Unable to fully analyze speech structure.",
                        "Unable to fully analyze pronunciation.",
                        "Unable to fully analyze topic relevance.",
                        "Unable to fully analyze emphasis. Focus on varying your tone to highlight key points.",
                        "Unable to analyze speech effectiveness."}
               IN  /\ \A k \in DOMAIN mid : r.scores[k] = mid[k]
                   /\ "feedback" \in r.keys
                   /\ \E i \in 1..Len(r.feedback) : r.feedback[i] \in unable

----------------------------------------------------------------------------
(* Properties of the pipeline-level timeout *)

\* C14: an analysis that runs longer than ANALYSIS_TIMEOUT is abandoned: the
\* request ends with an error, without scores, and save_analysis has
\* persisted nothing
C14_TimeoutAbandonsEvaluation ==
    (pc = "responded" /\ request.analysis_seconds > ANALYSIS_TIMEOUT)
        => /\ http.status >= 400
           /\ ~http.scores
           /\ saved # "stored"

\* C21: round trip of pause markers. Once the markers of a transcription
\* are stripped with the pattern of the text re-analyzers, no part of a
\* marker is left and the text is, up to whitespace normalized to single
\* blanks, the words of the recording joined in their order.
C21_StrippedTextIsTheWordSequence ==
    tpc \in {"cleaned", "analysed"}
        => LET all_words == AllWords(asr_result)
           IN  /\ \A i \in 1..Len(clean_text) :
                     clean_text[i] \notin {"[", "]", "s", "0", "1", "2"}
               /\ NormalizeWhitespace(clean_text)
                     = NormalizeWhitespace(
                           Join([i \in 1..Len(all_words) |->
                                    all_words[i].word]))

\* markers of one-digit and of two-digit seconds were stripped between words
C21_Witness ==
    /\ tpc = "cleaned"
    /\ normalizer = "TranscriptionAnalyzer"
    /\ \E i, j \in 1..Len(transcript) :
          /\ MatchPauseMarker(transcript, i) > 0 /\ transcript[i + 2] = "."
          /\ MatchPauseMarker(transcript, j) > 0 /\ transcript[j + 3] = "."
    /\ Len(clean_text) < Len(transcript)
    /\ Len(clean_text) > 0

\* C23: the normalizer puts a pause marker between two consecutive timed
\* words exactly when the gap from the end of the first to the start of the
\* second is at least 1.0 s for words of one segment and at least 2.0 s
\* across a segment boundary, and nowhere else: the words and the markers
\* of the output, in order, are the words with one marker after every such
\* gap.
C23_MarkersExactlyAtLongGaps ==
    tpc = "transcribed"
        => LET segs == asr_result.segments
               flat[k \in 0..Len(segs)] ==
                   IF k = 0 THEN <<>>
                   ELSE flat[k - 1]
                          \o [j \in 1..Len(segs[k].words) |->
                                 [segment |-> k,
                                  start |-> segs[k].words[j].start,
                                  end |-> segs[k].words[j].end]]
               timed == flat[Len(segs)]
               n == Len(timed)
               LongGap(i) ==
                   /\ i < n
                   /\ timed[i + 1].start - timed[i].end
                        >= (IF timed[i + 1].segment = timed[i].segment
                            THEN 100 ELSE 200)
               expected[i \in 0..n] ==
                   IF i = 0 THEN <<>>
                   ELSE expected[i - 1] \o <<"h">>
                          \o (IF LongGap(i) THEN <<"[">> ELSE <<>>)
           IN  SelectSeq(transcript, LAMBDA c : c \in {"h", "["})
                 = expected[n]

\* C24: _analyze_mid_sentence_pauses counts every pause marker whose
\* preceding text does not end with '.' in exactly one bucket, chosen by its
\* duration (below 1.5; 1.5 to 3; above 3 up to 5; above 5), and counts no
\* marker that follows text ending with '.': the four counts sum to the
\* number of mid-sentence markers of the transcription.
C24_BucketsPartitionMidSentenceMarkers ==
    tpc = "analysed"
        => LET digit == {DecimalDigits[k] : k \in 1..10}
               mid_sentence ==
                   {i \in 1..Len(transcript) :
                       /\ MatchPauseMarker(transcript, i) > 0
                       \* the text before the marker and its blank
                       /\ ~(i > 2 /\ transcript[i - 2] = ".")}
               Tenths(i) ==
                   LET a == RunEnd(transcript, i + 1, digit)
                   IN  10 * DecimalValue(SubSeq(transcript, i + 1, a))
                         + DecimalValue(SubSeq(transcript, a + 2,
                                               RunEnd(transcript, a + 2, digit)))
               Between(lo, hi) ==
                   Cardinality({i \in mid_sentence :
                                   lo <= Tenths(i) /\ Tenths(i) <= hi})
           IN  /\ pause_categories.under_1_5 = Between(10, 14)
               /\ pause_categories.between_1_5_3 = Between(15, 30)
               /\ pause_categories.exceeding_3 = Between(31, 50)
               /\ pause_categories.exceeding_5
                     = Cardinality({i \in mid_sentence : Tenths(i) > 50})
               /\ pause_categories.under_1_5 + pause_categories.between_1_5_3
                     + pause_categories.exceeding_3
                     + pause_categories.exceeding_5
                     = Cardinality(mid_sentence)

\* a marker after a sentence end was left out and a mid-sentence marker of
\* exactly 3.0 s was counted in the second bucket
C24_Witness ==
    /\ tpc = "analysed"
    /\ \E i, j \in 1..Len(transcript) :
          /\ MatchPauseMarker(transcript, i) > 0
          /\ i > 2 /\ transcript[i - 2] = "."
          /\ MatchPauseMarker(transcript, j) > 0
          /\ j > 2 /\ transcript[j - 2] # "."
          /\ SubSeq(transcript, j + 1, j + 3) = <<"3", ".", "0">>
    /\ pause_categories
         = [under_1_5 |-> 0, between_1_5_3 |-> 1, exceeding_3 |-> 0,
            exceeding_5 |-> 0]

----------------------------------------------------------------------------
(* Properties of the endpoints *)

\* C26: once POST /api/v2/analyze has returned the analysis_id X to the user
\* U, GET /api/v2/analysis/X for U returns the saved results, not
\* not-found (nothing having deleted the analysis in between)
C26_ReturnedAnalysisIdRetrievable ==
    (/\ apc = "responded"
     /\ api_request.endpoint = "get"
     /\ [analysis_id |-> api_request.analysis_id,
         user_id |-> api_request.user_id] \in issued)
        => /\ api_response.status = 200
           /\ api_response.analysis_id = api_request.analysis_id

\* C27: a POST without a file name or with an unsupported extension is
\* answered with 400, a GET or DELETE of an analysis id that no document
\* has with 404: neither becomes a 500
C27_ClientErrorsKeepTheirStatus ==
    apc = "responded"
        => /\ (api_request.endpoint = "analyze"
                  /\ api_request.filename # "speech.wav")
                 => api_response.status = 400
           /\ (api_request.endpoint \in {"get", "delete"}
                  /\ \A doc \in firestore :
                        doc.analysis_id # api_request.analysis_id)
                 => api_response.status = 404

\* C28: every audio file save_upload has written is eventually scheduled
\* for deletion through cleanup_file, whether the request succeeds or fails
C28_WrittenUploadEventuallyScheduledForCleanup ==
    \A f \in 1..MaxPosts :
        (f \in upload_dir) ~> (f \in background_tasks)


----------------------------------------------------------------------------
(* Properties of repeated runs and of the transcription step *)

\* C29: two runs of SpeechAnalysisService.analyze on the same recording,
\* transcription and analysis depth return the same pronunciation score
\* and the same overall score.
C29_RepeatedRunsGiveTheSameScores ==
    \A i, j \in DOMAIN runs :
        /\ runs[i].pronunciation_score = runs[j].pronunciation_score
        /\ runs[i].overall_score = runs[j].overall_score

\* C30: a call of analyze_speech whose transcription succeeded goes on to
\* launch the analyses, and the call never fails on a key the transcription
\* result does not have.
C30_TranscribedCallLaunchesTheAnalyses ==
    /\ (spc = "transcribed") ~> (spc = "analyses")
    /\ [](raised.exception # "KeyError")

====
